---- MODULE Spec2Model ----
(***************************************************************************)
(* The FindQC crawl-and-ingest pipeline (src/service_spider).              *)
(*                                                                         *)
(* Spec is the per-product ingestion pipeline, process_single_product,     *)
(* run by concurrent category workers against one database and one        *)
(* message exchange.  A worker interleaves with the others only at the     *)
(* awaits that touch shared state: the SELECT of the existence check, the  *)
(* flushes, the commit and the publish.  The detail and atlas fetches and  *)
(* the synchronous normalisation that follows them touch nothing shared    *)
(* and are one step.                                                       *)
(*                                                                         *)
(* A session serves the products of one page one after the other.  The     *)
(* path of a product ends in a commit, in a rollback or in a return that   *)
(* has issued no statement, so every product starts on a session with no   *)
(* uncommitted write and a new transaction.                                *)
(*                                                                         *)
(* Time is counted in units of 1000 seconds: every timestamp, the clock,   *)
(* the 30-day window and the 10^10 millisecond threshold are the code's    *)
(* values divided by 1000, so that a millisecond timestamp of today fits   *)
(* the checker's integers.  The inputs are multiples of 1000, for which    *)
(* the scaling is exact.                                                   *)
(***************************************************************************)
EXTENDS Integers, Sequences, FiniteSets, TLC

VARIABLES
    products,   \* committed rows of t_products
    tasks,      \* committed rows of t_tasks_products, in insertion order
    events,     \* messages published to the exchange, in order
    now,        \* datetime.utcnow()
    tz,         \* offset of the local time zone from UTC
    task_id,    \* update_task_id of the run in progress
    next_id,    \* AUTO_INCREMENT of t_products.id
    pc,         \* per worker: where process_single_product stands
    cur,        \* per worker: the item in hand and what was computed for it
    sess,       \* per worker: the flushed, uncommitted writes of its session
    hist,       \* the ingestion that returned last (recorded under SpecSeq only)
    rcall,      \* async_retry: the wrapped call in progress and the wrapper's locals
    requests,   \* async_retry: the outcome of every attempt of the call, in order
    sleeps,     \* async_retry: the duration of every sleep of the call, in order
    trav,       \* fetch_category_products: its parameters, locals and position
    catalogue,  \* what the upstream answers for each page of the category
    fetched,    \* the pages of the category requested so far, in order
    handed,     \* the items handed to process_single_product so far, in order
    sessions,   \* the number of database sessions the traversal has opened
    cats,       \* spider_main_process: where the task of each category stands
    sem,        \* spider_main_process: the value of the semaphore
    width,      \* spider_main_process: max_concurrent
    run,        \* spider_main_process: its parameters, locals and position
    ctrav,      \* per category: the locals and position of its fetch_category_products
    clog,       \* per category: the pages requested, the items handed over and how each ended
    norm,       \* the normalisation of one product: its inputs, locals and result
    hint,       \* get_resume_category_id: the table it read and what it returned
    boot,       \* main: where the startup stands and what it has set up
    chk         \* check_and_update_existing_product: the arguments of a call and its result

pipeVars == <<products, tasks, events, now, tz, task_id, next_id, pc, cur, sess, hist>>
retryVars == <<rcall, requests, sleeps>>
travVars == <<trav, catalogue, fetched, handed, sessions>>
mainVars == <<cats, sem, width>>
crawlVars == <<run, ctrav, clog>>

vars == <<products, tasks, events, now, tz, task_id, next_id, pc, cur, sess, hist,
          rcall, requests, sleeps, trav, catalogue, fetched, handed, sessions,
          cats, sem, width, run, ctrav, clog, norm, hint, boot, chk>>

----------------------------------------------------------------------------
(* Bounds and program constants *)

MaxTicks == 1
MaxId == 3

\* timedelta(days=30), in units of 1000 s
Window == 2592
\* 10**10, in units of 1000
MsThreshold == 10000000
\* Python's None where a number is expected
NULL == -1
\* Product.status and TaskProduct.status
Active == 0
SoftDeleted == 1
Pending == 0

Epoch == 1700 * 1000
TzOffsets == {0}

Workers == {"w1", "w2"}
\* the category each worker traverses
CategoryOf == [w \in Workers |-> IF w = "w1" THEN 4113 ELSE 4114]

----------------------------------------------------------------------------
(* Upstream data *)

Qc(u, t) == [url |-> u, time |-> t]
AtlasPage(qcs, more) == [atlasList |-> IF qcs = <<>> THEN <<>> ELSE <<[qcList |-> qcs]>>,
                         hasMore |-> more]
Detail(price, weight, qcs) ==
    [price |-> price, weight |-> weight, picList |-> <<"main.jpg">>,
     propsList |-> <<[optionList |-> <<[picUrl |-> "sku.jpg"], [picUrl |-> ""]>>]>>,
     qcList |-> qcs]

\* What the upstream may answer for a product: the detail body and the atlas pages.
\* "stale" carries a millisecond timestamp.
PayloadNames == {"fresh", "edge", "stale", "notime", "nourl"}

Payload(name) ==
    CASE name = "fresh" ->
           [detail |-> Detail("9.90", 2, <<Qc("u1", Epoch - 100)>>),
            atlas |-> << AtlasPage(<<Qc("u2", Epoch - Window - 50), Qc("u1", Epoch - 100)>>, TRUE),
                         AtlasPage(<<Qc("u3", Epoch - 10)>>, FALSE) >>]
      [] name = "edge" ->
           [detail |-> Detail("12.50", 0, <<Qc("u4", Epoch - Window)>>), atlas |-> <<>>]
      [] name = "stale" ->
           [detail |-> Detail("7.00", NULL, <<Qc("u6", (Epoch - Window - 1) * 1000)>>),
            atlas |-> <<>>]
      [] name = "notime" ->
           [detail |-> Detail("7.00", NULL, <<Qc("u7", NULL)>>), atlas |-> <<>>]
      [] OTHER ->
           [detail |-> Detail("7.00", NULL, <<Qc("", Epoch - 5)>>), atlas |-> <<>>]

\* Item summaries of the category pages; the last two are incomplete.
Items ==
    { [id |-> 1, itemId |-> "A", mallType |-> "tb"],
      [id |-> 2, itemId |-> "B", mallType |-> "wd"],
      [id |-> 0, itemId |-> "C", mallType |-> "tb"],
      [id |-> 1, itemId |-> "A", mallType |-> ""] }

\* Product 1 is listed in the categories of both workers.
SharedItems == {it \in Items : it.id # 2}

FindqcIds == {it.id : it \in Items} \ {0}

----------------------------------------------------------------------------
(* prepare_product_data *)

RECURSIVE SeqMax(_)
SeqMax(s) ==
    IF Len(s) = 1 THEN s[1]
    ELSE LET m == SeqMax(Tail(s)) IN IF s[1] >= m THEN s[1] ELSE m

RECURSIVE Flatten(_)
Flatten(ss) == IF ss = <<>> THEN <<>> ELSE Head(ss) \o Flatten(Tail(ss))

Contains(s, x) == \E i \in 1..Len(s) : s[i] = x

\* sku_images: the non-empty picUrl of every option of every property
SkuImages(propsList) ==
    LET opts == Flatten([i \in 1..Len(propsList) |-> propsList[i].optionList])
        urls == [i \in 1..Len(opts) |-> opts[i].picUrl]
    IN SelectSeq(urls, LAMBDA u : u # "")

\* qc_images after the detail loop: every non-empty url, repeats kept
DetailQcImages(qcList) ==
    SelectSeq([i \in 1..Len(qcList) |-> qcList[i].url], LAMBDA u : u # "")

\* the qc entries of every atlas item of every accumulated atlas response
AtlasQcEntries(atlas_responses) ==
    Flatten([i \in 1..Len(atlas_responses) |->
        Flatten([j \in 1..Len(atlas_responses[i].atlasList) |->
            atlas_responses[i].atlasList[j].qcList])])

\* qc_images after the atlas loop: a url is appended unless empty or present
RECURSIVE AddAtlasImages(_, _)
AddAtlasImages(images, entries) ==
    IF entries = <<>> THEN images
    ELSE LET u == Head(entries).url
         IN AddAtlasImages(IF u # "" /\ ~Contains(images, u) THEN Append(images, u) ELSE images,
                           Tail(entries))

\* all_qc_times: the detail times, then the atlas times, None left out
AllQcTimes(qcList, entries) ==
    LET all == qcList \o entries
    IN SelectSeq([i \in 1..Len(all) |-> all[i].time], LAMBDA t : t # NULL)

\* faulty variant: 10^10 itself counts as milliseconds
NormalizeInclusive(ts) == IF ts >= MsThreshold THEN ts \div 1000 ELSE ts

\* a timestamp above 10^10 is milliseconds
Normalize(ts) == IF ts > MsThreshold THEN ts \div 1000 ELSE ts

\* datetime.fromtimestamp: the naive local time
FromTimestamp(ts, zone) == ts + zone

LastQcTime(times, zone) ==
    IF times = <<>> THEN NULL ELSE FromTimestamp(Normalize(SeqMax(times)), zone)

QcCount30Days(times, zone, clock) ==
    Len(SelectSeq(times, LAMBDA t : FromTimestamp(Normalize(t), zone) >= clock - Window))

\* weight: float(weight) of a number is that number; None and 0 are kept as they are
Weight(w) == w

NoData == [findqc_id |-> 0]

\* faulty variant: a gate that does not look at the age of the newest QC image
ShouldSaveAnyAge(qc_images, last_qc_time, clock) ==
    IF qc_images = <<>> THEN FALSE
    ELSE last_qc_time # NULL

ShouldSave(qc_images, last_qc_time, clock) ==
    IF qc_images = <<>> THEN FALSE
    ELSE IF last_qc_time = NULL THEN FALSE
    ELSE ~(last_qc_time < clock - Window)

PrepareProductData(item, category_id, detail, atlas_responses, zone, clock) ==
    LET entries == AtlasQcEntries(atlas_responses)
        qc_images == AddAtlasImages(DetailQcImages(detail.qcList), entries)
        times == AllQcTimes(detail.qcList, entries)
        last_qc_time == LastQcTime(times, zone)
    IN IF ~ShouldSave(qc_images, last_qc_time, clock) THEN NoData
       ELSE [findqc_id |-> item.id,
             itemId |-> item.itemId,
             mallType |-> item.mallType,
             categoryId |-> category_id,
             price |-> detail.price,
             weight |-> Weight(detail.weight),
             image_urls |-> [qc_images |-> qc_images,
                             main_images |-> detail.picList,
                             sku_images |-> SkuImages(detail.propsList)],
             last_qc_time |-> last_qc_time,
             qc_count_30days |-> QcCount30Days(times, zone, clock),
             status |-> Active]

----------------------------------------------------------------------------
(* The atlas loop of process_single_product *)

\* atlas_responses: pages from `page` on, until a fetch fails (failAt), a page is
\* empty or a page says hasMore is false.  Past its last page the upstream answers
\* with an empty atlasList.
RECURSIVE AtlasLoop(_, _, _, _)
AtlasLoop(pages, page, failAt, acc) ==
    IF page = failAt THEN acc
    ELSE LET resp == IF page <= Len(pages) THEN pages[page] ELSE AtlasPage(<<>>, FALSE)
         IN IF resp.atlasList = <<>> THEN acc
            ELSE IF ~resp.hasMore THEN Append(acc, resp)
            ELSE AtlasLoop(pages, page + 1, failAt, Append(acc, resp))

\* the atlas page whose fetch fails after the retries; 0: none does
AtlasFailures == {0, 1}

----------------------------------------------------------------------------
(* The database: rows, sessions, constraints *)

NoItem == [id |-> 0, itemId |-> "", mallType |-> ""]

\* the locals of process_single_product
InitCur == [item |-> NoItem, task |-> 0, pl |-> "none", atlas_n |-> 0,
            tgate |-> 0, pd |-> NoData, op |-> "none"]

EmptySession == [ins |-> {}, tsk |-> <<>>, upd |-> {}]

\* no committing ingestion recorded / recording switched off
NoHist == [on |-> TRUE, item |-> NoItem, pl |-> "none", atlas_n |-> 0, tgate |-> 0, rows |-> {}]
HistOff == [NoHist EXCEPT !.on = FALSE]

RowsOf(f) == {p \in products : p.findqc_id = f}

TasksOf(f) == {i \in 1..Len(tasks) : tasks[i].findqc_id = f}

EventsOf(f) == {i \in 1..Len(events) : events[i].findqc_id = f}

\* faulty variant: findqc_id without its UNIQUE constraint
UniqueViolationOff(f) == FALSE

\* UNIQUE(findqc_id): an INSERT fails on a committed row of the same findqc_id
UniqueViolation(f) == RowsOf(f) # {}

\* UNIQUE(findqc_id): an INSERT waits for another transaction's uncommitted row
InsertPending(f, w) ==
    \E v \in Workers \ {w} : \E p \in sess[v].ins : p.findqc_id = f

\* an UPDATE waits for the row lock another transaction holds until it ends
RowLocked(id, w) ==
    \E v \in Workers \ {w} : \E u \in sess[v].upd : u.id = id

\* the UPDATE a flush emits sets the assigned columns and no other
ApplyUpdate(row, cols) ==
    [c \in DOMAIN row |-> IF c \in DOMAIN cols THEN cols[c] ELSE row[c]]

\* faulty variant: a commit that also purges the soft-deleted rows
CommitRowsPurge(w) ==
    {p \in {IF \E u \in sess[w].upd : u.id = q.id
            THEN ApplyUpdate(q, (CHOOSE u \in sess[w].upd : u.id = q.id).cols)
            ELSE q : q \in products} : p.status # SoftDeleted} \cup sess[w].ins

\* t_products after the commit of w's session
CommitRows(w) ==
    {IF \E u \in sess[w].upd : u.id = p.id
     THEN ApplyUpdate(p, (CHOOSE u \in sess[w].upd : u.id = p.id).cols)
     ELSE p : p \in products} \cup sess[w].ins

----------------------------------------------------------------------------
(* check_and_update_existing_product, for a row that exists *)

\* faulty variant: a refresh that adds the new count to the stored one
LifecycleAccumulate(product, last_qc_time, qc_count_30days, clock) ==
    IF last_qc_time # NULL /\ last_qc_time >= clock - Window
    THEN [op |-> "exists_updated",
          cols |-> [last_qc_time |-> last_qc_time,
                    qc_count_30days |-> product.qc_count_30days + qc_count_30days,
                    last_update |-> clock]]
    ELSE [op |-> "exists_deleted", cols |-> [status |-> SoftDeleted, last_update |-> clock]]

\* faulty variant: a refresh that also brings the row back to Active
LifecycleReactivate(product, last_qc_time, qc_count_30days, clock) ==
    IF last_qc_time # NULL /\ last_qc_time >= clock - Window
    THEN [op |-> "exists_updated",
          cols |-> [last_qc_time |-> last_qc_time,
                    qc_count_30days |-> qc_count_30days,
                    last_update |-> clock,
                    status |-> Active]]
    ELSE [op |-> "exists_deleted", cols |-> [status |-> SoftDeleted, last_update |-> clock]]

\* faulty variant: a QC time exactly 30 days old counts as too old
LifecycleExclusive(product, last_qc_time, qc_count_30days, clock) ==
    IF last_qc_time # NULL /\ last_qc_time > clock - Window
    THEN [op |-> "exists_updated",
          cols |-> [last_qc_time |-> last_qc_time,
                    qc_count_30days |-> qc_count_30days,
                    last_update |-> clock]]
    ELSE [op |-> "exists_deleted", cols |-> [status |-> SoftDeleted, last_update |-> clock]]

Lifecycle(product, last_qc_time, qc_count_30days, clock) ==
    IF last_qc_time = NULL
    THEN [op |-> "exists_deleted", cols |-> [status |-> SoftDeleted, last_update |-> clock]]
    ELSE IF last_qc_time >= clock - Window
    THEN [op |-> "exists_updated",
          cols |-> [last_qc_time |-> last_qc_time,
                    qc_count_30days |-> qc_count_30days,
                    last_update |-> clock]]
    ELSE [op |-> "exists_deleted", cols |-> [status |-> SoftDeleted, last_update |-> clock]]

\* save_or_update_product: the Product built from product_data and update_task_id
NewProduct(product_data, update_task_id, id, clock) ==
    [id |-> id,
     findqc_id |-> product_data.findqc_id,
     itemId |-> product_data.itemId,
     mallType |-> product_data.mallType,
     categoryId |-> product_data.categoryId,
     price |-> product_data.price,
     weight |-> product_data.weight,
     image_urls |-> product_data.image_urls,
     last_qc_time |-> product_data.last_qc_time,
     qc_count_30days |-> product_data.qc_count_30days,
     status |-> product_data.status,
     update_task_id |-> update_task_id,
     last_update |-> clock]

\* create_task_record
NewTask(findqc_id, update_task_id, status) ==
    [findqc_id |-> findqc_id, update_task_id |-> update_task_id, status |-> status]

\* send_product_new_message: the message body
NewMessage(update_task_id, findqc_id, product_id, item_id, mall_type) ==
    [task_id |-> update_task_id, findqc_id |-> findqc_id, product_id |-> product_id,
     itemId |-> item_id, mallType |-> mall_type, action |-> "product.new"]

----------------------------------------------------------------------------
(* process_single_product, step by step *)

Goto(w, c, where) ==
    /\ cur' = [cur EXCEPT ![w] = c]
    /\ pc' = [pc EXCEPT ![w] = where]
    /\ UNCHANGED <<hist, retryVars, travVars, mainVars, crawlVars, norm, hint, boot, chk>>

\* what is recorded of an ingestion that returns: the payload it ingested, the
\* clock at its freshness gate and the QC state of the rows it committed
Record(c, rows) ==
    IF rows = {} THEN NoHist
    ELSE [on |-> TRUE, item |-> c.item, pl |-> c.pl, atlas_n |-> c.atlas_n, tgate |-> c.tgate,
          rows |-> {[status |-> p.status, last_qc_time |-> p.last_qc_time,
                     qc_count_30days |-> p.qc_count_30days] : p \in rows}]

\* The coroutine returns and its locals are gone.  `rows` are the rows of the
\* product it committed, empty when it committed nothing.
Return(w, rows) ==
    /\ cur' = [cur EXCEPT ![w] = InitCur]
    /\ pc' = [pc EXCEPT ![w] = "idle"]
    /\ hist' = IF hist.on THEN Record(cur[w], rows) ELSE hist
    /\ UNCHANGED <<retryVars, travVars, mainVars, crawlVars, norm, hint, boot, chk>>

\* except Exception: await session.rollback(); raise
Rollback(w) ==
    /\ sess' = [sess EXCEPT ![w] = EmptySession]
    /\ Return(w, {})

Incomplete(item) == item.id = 0 \/ item.itemId = "" \/ item.mallType = ""

\* From the item summary to product_data: the completeness check, the detail fetch,
\* the atlas loop and prepare_product_data.  An incomplete item returns at once; a
\* failed detail fetch raises with nothing to roll back.
FetchAndPrepare(w, items) ==
    /\ pc[w] = "idle"
    /\ \E item \in items :
         IF Incomplete(item)
         THEN Return(w, {})
         ELSE \/ Return(w, {})
              \/ \E name \in PayloadNames, failAt \in AtlasFailures :
                   LET atlas_responses == AtlasLoop(Payload(name).atlas, 1, failAt, <<>>)
                       pd == PrepareProductData(item, CategoryOf[w], Payload(name).detail,
                                                atlas_responses, tz, now)
                   IN Goto(w, [InitCur EXCEPT !.item = item, !.task = task_id,
                                             !.pl = name, !.atlas_n = Len(atlas_responses),
                                             !.tgate = now, !.pd = pd], "prepared")
    /\ UNCHANGED <<products, tasks, events, now, tz, task_id, next_id, sess>>

\* The should_save test, then check_and_update_existing_product: the SELECT, the
\* decision and the flush of the UPDATE.
GateAndCheck(w) ==
    /\ pc[w] = "prepared"
    /\ IF cur[w].pd = NoData
       THEN Return(w, {}) /\ UNCHANGED sess
       ELSE LET found == RowsOf(cur[w].item.id)
            IN IF found = {}
               THEN /\ Goto(w, [cur[w] EXCEPT !.op = "not_exists"], "save")
                    /\ UNCHANGED sess
               ELSE IF Cardinality(found) > 1
               THEN Rollback(w)
               ELSE LET product == CHOOSE p \in found : TRUE
                        r == Lifecycle(product, cur[w].pd.last_qc_time,
                                       cur[w].pd.qc_count_30days, now)
                    IN /\ ~RowLocked(product.id, w)
                       /\ sess' = [sess EXCEPT ![w].upd = {[id |-> product.id, cols |-> r.cols]}]
                       /\ Goto(w, [cur[w] EXCEPT !.op = r.op], "commit_exists")
    /\ UNCHANGED <<products, tasks, events, now, tz, task_id, next_id>>

\* faulty variant: the path of an existing row goes on to publish
CommitExistingRepublish(w) ==
    /\ pc[w] = "commit_exists"
    /\ products' = CommitRows(w)
    /\ sess' = [sess EXCEPT ![w] = EmptySession]
    /\ Goto(w, cur[w], "publish")
    /\ UNCHANGED <<tasks, events, now, tz, task_id, next_id>>

\* faulty variant: the path of an existing row records a task
CommitExistingWithTask(w) ==
    /\ pc[w] = "commit_exists"
    /\ products' = CommitRows(w)
    /\ tasks' = Append(tasks, NewTask(cur[w].item.id, cur[w].task, Pending))
    /\ sess' = [sess EXCEPT ![w] = EmptySession]
    /\ Return(w, {p \in CommitRows(w) : p.findqc_id = cur[w].item.id})
    /\ UNCHANGED <<events, now, tz, task_id, next_id>>

\* exists_deleted, exists_updated: commit and return
CommitExisting(w) ==
    /\ pc[w] = "commit_exists"
    /\ products' = CommitRows(w)
    /\ sess' = [sess EXCEPT ![w] = EmptySession]
    /\ Return(w, {p \in CommitRows(w) : p.findqc_id = cur[w].item.id})
    /\ UNCHANGED <<tasks, events, now, tz, task_id, next_id>>

\* faulty variant: save_or_update_product commits the Product on its own
SaveNewAutocommit(w) ==
    /\ pc[w] = "save"
    /\ LET f == cur[w].item.id
       IN IF UniqueViolation(f)
          THEN Rollback(w) /\ UNCHANGED <<next_id, products>>
          ELSE /\ ~InsertPending(f, w)
               /\ next_id <= MaxId
               /\ products' = products \cup {NewProduct(cur[w].pd, cur[w].task, next_id, now)}
               /\ UNCHANGED sess
               /\ next_id' = next_id + 1
               /\ Goto(w, cur[w], "task")
    /\ UNCHANGED <<tasks, events, now, tz, task_id>>

\* not_exists: save_or_update_product, the INSERT of the flush
SaveNew(w) ==
    /\ pc[w] = "save"
    /\ LET f == cur[w].item.id
       IN IF UniqueViolation(f)
          THEN Rollback(w) /\ UNCHANGED next_id
          ELSE /\ ~InsertPending(f, w)
               /\ next_id <= MaxId
               /\ sess' = [sess EXCEPT ![w].ins =
                              {NewProduct(cur[w].pd, cur[w].task, next_id, now)}]
               /\ next_id' = next_id + 1
               /\ Goto(w, cur[w], "task")
    /\ UNCHANGED <<products, tasks, events, now, tz, task_id>>

\* faulty variant: the event is published before the commit
CreateTaskPublishFirst(w) ==
    /\ pc[w] = "task"
    /\ sess' = [sess EXCEPT ![w].tsk =
                   <<NewTask(cur[w].item.id, cur[w].task, Pending)>>]
    /\ \E product \in sess[w].ins :
         events' = Append(events, NewMessage(cur[w].task, cur[w].item.id, product.id,
                                             cur[w].item.itemId, cur[w].item.mallType))
    /\ Goto(w, cur[w], "commit_new")
    /\ UNCHANGED <<products, tasks, now, tz, task_id, next_id>>

\* create_task_record
CreateTask(w) ==
    /\ pc[w] = "task"
    /\ sess' = [sess EXCEPT ![w].tsk =
                   <<NewTask(cur[w].item.id, cur[w].task, Pending)>>]
    /\ Goto(w, cur[w], "commit_new")
    /\ UNCHANGED <<products, tasks, events, now, tz, task_id, next_id>>

\* await session.commit() of the creation path
CommitNew(w) ==
    /\ pc[w] = "commit_new"
    /\ products' = CommitRows(w)
    /\ tasks' = tasks \o sess[w].tsk
    /\ sess' = [sess EXCEPT ![w] = EmptySession]
    /\ Goto(w, [cur[w] EXCEPT !.op = "committed"], "publish")
    /\ UNCHANGED <<events, now, tz, task_id, next_id>>

\* faulty variant: a failed publish takes the committed rows back
PublishOrUndo(w) ==
    /\ pc[w] = "publish"
    /\ \E product \in RowsOf(cur[w].item.id) :
         LET msg == NewMessage(cur[w].task, cur[w].item.id, product.id,
                               cur[w].item.itemId, cur[w].item.mallType)
         IN \/ events' = Append(events, msg) /\ UNCHANGED products
            \/ UNCHANGED events /\ products' = products \ RowsOf(cur[w].item.id)
    /\ Return(w, RowsOf(cur[w].item.id))
    /\ UNCHANGED <<tasks, now, tz, task_id, next_id, sess>>

\* send_product_new_message with product.id; a failure is logged and swallowed
Publish(w) ==
    /\ pc[w] = "publish"
    /\ \E product \in RowsOf(cur[w].item.id) :
         LET msg == NewMessage(cur[w].task, cur[w].item.id, product.id,
                               cur[w].item.itemId, cur[w].item.mallType)
         IN \/ events' = Append(events, msg)
            \/ UNCHANGED events
    /\ Return(w, RowsOf(cur[w].item.id))
    /\ UNCHANGED <<products, tasks, now, tz, task_id, next_id, sess>>

\* a statement or the commit fails: the exception handler rolls back and re-raises
DbError(w) ==
    /\ \/ pc[w] \in {"commit_exists", "save", "task", "commit_new"}
       \/ pc[w] = "prepared" /\ cur[w].pd # NoData
    /\ Rollback(w)
    /\ UNCHANGED <<products, tasks, events, now, tz, task_id, next_id>>

\* the wall clock moves on
Tick ==
    /\ now < Epoch + MaxTicks
    /\ now' = now + 1
    /\ UNCHANGED <<products, tasks, events, tz, task_id, next_id, pc, cur, sess, hist>>
    /\ UNCHANGED <<retryVars, travVars, mainVars, crawlVars, norm, hint, boot, chk>>

\* update_task_id of a run: the hour of the clock at its start, as a number
BatchId(clock) == clock

\* a run has ended and the next one starts, with the batch identifier of its hour
NewRun ==
    /\ \A w \in Workers : pc[w] = "idle"
    /\ task_id # BatchId(now)
    /\ task_id' = BatchId(now)
    /\ UNCHANGED <<products, tasks, events, now, tz, next_id, pc, cur, sess, hist>>
    /\ UNCHANGED <<retryVars, travVars, mainVars, crawlVars, norm, hint, boot, chk>>

----------------------------------------------------------------------------
(* async_retry: the wrapper around the three requests of FindQCAPIClient *)

\* the wrapped methods
ApiCalls == {"get_category_products", "get_product_detail", "get_product_atlas"}

\* max_attempts, delay and backoff come from the settings; the model tries these
MaxAttemptsLimit == 3
Delays == {1, 3}
Backoffs == {1, 2}

\* What one attempt may end in: the parsed body, raise_for_status raising
\* HTTPStatusError, the transport raising a subclass of httpx.RequestError, or
\* response.json() raising JSONDecodeError.
Ok == [kind |-> "ok", status |-> 200]
HTTPStatusError(status_code) == [kind |-> "HTTPStatusError", status |-> status_code]
OtherError(name) == [kind |-> name, status |-> 0]
NoResult == [kind |-> "none", status |-> 0]

\* the subclasses of httpx.RequestError the model lets the transport raise
RequestErrors == {"ConnectError", "ReadTimeout", "DecodingError"}

Outcomes ==
    {Ok, HTTPStatusError(503), HTTPStatusError(429), HTTPStatusError(404)}
    \cup {OtherError(n) : n \in RequestErrors} \cup {OtherError("JSONDecodeError")}

\* faulty variant: every HTTP error status is retried
RetryableAnyStatus(e) ==
    IF e.kind = "HTTPStatusError"
    THEN e.status >= 400
    ELSE e.kind \in RequestErrors

\* the except clauses of the wrapper, in their order
Retryable(e) ==
    IF e.kind = "HTTPStatusError"
    THEN e.status >= 500 \/ e.status = 429
    ELSE e.kind \in RequestErrors

\* faulty variant: an off-by-one in the test for a remaining attempt
MayRetryOffByOne(attempt, max_attempts) == attempt <= max_attempts

\* if attempt < max_attempts
MayRetry(attempt, max_attempts) == attempt < max_attempts

\* faulty variant: a backoff that adds instead of multiplying
NextDelayLinear(current_delay, backoff) == current_delay + backoff

\* current_delay *= backoff
NextDelay(current_delay, backoff) == current_delay * backoff

NoCall == [pc |-> "idle", func |-> "", max_attempts |-> 0, delay |-> 0, backoff |-> 0,
           attempt |-> 0, current_delay |-> 0, result |-> NoResult]

RetryIdle ==
    /\ rcall = NoCall
    /\ requests = <<>>
    /\ sleeps = <<>>

\* a wrapped method is called: current_delay = delay, attempt = 1
CallStart ==
    /\ rcall.pc \in {"idle", "returned", "raised"}
    /\ \E func \in ApiCalls, max_attempts \in 1..MaxAttemptsLimit,
          delay \in Delays, backoff \in Backoffs :
         rcall' = [pc |-> "try", func |-> func, max_attempts |-> max_attempts,
                   delay |-> delay, backoff |-> backoff, attempt |-> 1,
                   current_delay |-> delay, result |-> NoResult]
    /\ requests' = <<>>
    /\ sleeps' = <<>>
    /\ UNCHANGED <<pipeVars, travVars, mainVars, crawlVars, norm, hint, boot, chk>>

\* one pass of the for loop up to its return, its raise or its sleep
Attempt ==
    /\ rcall.pc = "try"
    /\ \E o \in Outcomes :
         /\ requests' = Append(requests, o)
         /\ rcall' = IF o = Ok
                     THEN [rcall EXCEPT !.pc = "returned", !.result = o]
                     ELSE IF Retryable(o) /\ MayRetry(rcall.attempt, rcall.max_attempts)
                     THEN [rcall EXCEPT !.pc = "sleep", !.result = o]
                     ELSE [rcall EXCEPT !.pc = "raised", !.result = o]
    /\ UNCHANGED <<sleeps, pipeVars, travVars, mainVars, crawlVars, norm, hint, boot, chk>>

\* await asyncio.sleep(current_delay); current_delay *= backoff; continue
Sleep ==
    /\ rcall.pc = "sleep"
    /\ sleeps' = Append(sleeps, rcall.current_delay)
    /\ rcall' = [rcall EXCEPT !.pc = "try",
                              !.current_delay = NextDelay(rcall.current_delay, rcall.backoff),
                              !.attempt = rcall.attempt + 1]
    /\ UNCHANGED <<requests, pipeVars, travVars, mainVars, crawlVars, norm, hint, boot, chk>>

----------------------------------------------------------------------------
(* fetch_category_products: the page loop of one category *)

\* page_size of the SpiderService and the number of pages the upstream holds;
\* past its last page the upstream answers with no item and hasMore false
PageSize == 2
MaxPages == 2

\* max_products; 0 stands for None and for 0, which the code treats alike
Caps == {0, 2}

PageResponse(n, more) == [n |-> n, hasMore |-> more]

Catalogues == [1..MaxPages -> {PageResponse(n, more) : n \in 0..PageSize, more \in BOOLEAN}]

\* get_category_products for a page, the request having succeeded
ResponseOf(cat, page) == IF page \in DOMAIN cat THEN cat[page] ELSE PageResponse(0, FALSE)

\* if max_products and total_products >= max_products
CapReached(max_products, total_products) ==
    max_products # 0 /\ total_products >= max_products

\* faulty variant: the last page is told by the hasMore flag
IsLastPageByFlag(response) == ~response.hasMore

\* faulty variant: a full page counts as the last one
IsLastPageInclusive(response) == response.n <= PageSize

\* is_last_page = len(items) < self.page_size
IsLastPage(response) == response.n < PageSize

NoTraversal == [pc |-> "idle", max_products |-> 0, current_page |-> 0, total_products |-> 0,
                response |-> PageResponse(0, FALSE), idx |-> 0, exit |-> "none",
                session |-> 0]

TravIdle ==
    /\ trav = NoTraversal
    /\ catalogue = [p \in 1..MaxPages |-> PageResponse(0, FALSE)]
    /\ fetched = <<>>
    /\ handed = <<>>
    /\ sessions = 0

\* the traversal of a category starts: current_page = 1, total_products = 0
TravStart ==
    /\ trav.pc \in {"idle", "done"}
    /\ \E cat \in Catalogues, max_products \in Caps :
         /\ catalogue' = cat
         /\ trav' = [NoTraversal EXCEPT !.pc = "loop", !.max_products = max_products,
                                        !.current_page = 1]
    /\ fetched' = <<>>
    /\ handed' = <<>>
    /\ sessions' = 0
    /\ UNCHANGED <<pipeVars, retryVars, mainVars, crawlVars, norm, hint, boot, chk>>

\* faulty variant: the session is opened before the page is looked at
FetchPageSessionFirst ==
    /\ trav.pc = "loop"
    /\ IF CapReached(trav.max_products, trav.total_products)
       THEN /\ trav' = [trav EXCEPT !.pc = "done", !.exit = "cap"]
            /\ UNCHANGED <<fetched, sessions>>
       ELSE /\ fetched' = Append(fetched, trav.current_page)
            /\ \/ /\ trav' = [trav EXCEPT !.pc = "done", !.exit = "error"]
                  /\ UNCHANGED sessions
               \/ LET response == ResponseOf(catalogue, trav.current_page)
                  IN /\ sessions' = sessions + 1
                     /\ trav' = IF response.n = 0
                                THEN [trav EXCEPT !.pc = "done", !.exit = "nodata",
                                                  !.response = response]
                                ELSE [trav EXCEPT !.pc = "items", !.response = response,
                                                  !.idx = 1, !.session = trav.current_page]
    /\ UNCHANGED <<catalogue, handed, pipeVars, retryVars, mainVars, crawlVars, norm, hint, boot, chk>>

\* The head of the while loop: the cap test, the request of the page, the test for
\* an empty category, the test for an empty page, and the opening of the session.
\* A request that raises ends the loop through the outer except.
FetchPage ==
    /\ trav.pc = "loop"
    /\ IF CapReached(trav.max_products, trav.total_products)
       THEN /\ trav' = [trav EXCEPT !.pc = "done", !.exit = "cap"]
            /\ UNCHANGED <<fetched, sessions>>
       ELSE /\ fetched' = Append(fetched, trav.current_page)
            /\ \/ /\ trav' = [trav EXCEPT !.pc = "done", !.exit = "error"]
                  /\ UNCHANGED sessions
               \/ LET response == ResponseOf(catalogue, trav.current_page)
                  IN IF trav.current_page = 1 /\ ~response.hasMore /\ response.n = 0
                     THEN /\ trav' = [trav EXCEPT !.pc = "done", !.exit = "empty",
                                                  !.response = response]
                          /\ UNCHANGED sessions
                     ELSE IF response.n = 0
                     THEN /\ trav' = [trav EXCEPT !.pc = "done", !.exit = "nodata",
                                                  !.response = response]
                          /\ UNCHANGED sessions
                     ELSE /\ trav' = [trav EXCEPT !.pc = "items", !.response = response,
                                                  !.idx = 1, !.session = trav.current_page]
                          /\ sessions' = sessions + 1
    /\ UNCHANGED <<catalogue, handed, pipeVars, retryVars, mainVars, crawlVars, norm, hint, boot, chk>>


\* faulty variant: the exception of an item reaches the outer except and ends the loop
ProcessItemAbortOnFailure ==
    /\ trav.pc = "items"
    /\ trav.idx <= trav.response.n
    /\ ~CapReached(trav.max_products, trav.total_products)
    /\ handed' = Append(handed, <<trav.current_page, trav.idx>>)
    /\ \/ trav' = [trav EXCEPT !.idx = @ + 1, !.total_products = @ + 1]
       \/ trav' = [trav EXCEPT !.pc = "done", !.exit = "error", !.session = 0]
    /\ UNCHANGED <<catalogue, fetched, sessions, pipeVars, retryVars, mainVars, crawlVars, norm, hint, boot, chk>>

\* One pass of the for loop: the item is handed to process_single_product, which
\* returns (total_products += 1) or raises (logged, continue).
ProcessItem ==
    /\ trav.pc = "items"
    /\ trav.idx <= trav.response.n
    /\ ~CapReached(trav.max_products, trav.total_products)
    /\ handed' = Append(handed, <<trav.current_page, trav.idx>>)
    /\ \/ trav' = [trav EXCEPT !.idx = @ + 1, !.total_products = @ + 1]
       \/ trav' = [trav EXCEPT !.idx = @ + 1]
    /\ UNCHANGED <<catalogue, fetched, sessions, pipeVars, retryVars, mainVars, crawlVars, norm, hint, boot, chk>>

\* The for loop ends, by exhaustion or by the cap: the session closes, then the cap
\* test, the is_last_page test and the page increment.
EndPage ==
    /\ trav.pc = "items"
    /\ \/ trav.idx > trav.response.n
       \/ CapReached(trav.max_products, trav.total_products)
    /\ trav' = IF CapReached(trav.max_products, trav.total_products)
               THEN [trav EXCEPT !.pc = "done", !.exit = "cap", !.session = 0]
               ELSE IF IsLastPage(trav.response)
               THEN [trav EXCEPT !.pc = "done", !.exit = "last", !.session = 0]
               ELSE [trav EXCEPT !.pc = "loop", !.current_page = @ + 1, !.session = 0]
    /\ UNCHANGED <<catalogue, fetched, handed, sessions, pipeVars, retryVars, mainVars, crawlVars, norm, hint, boot, chk>>

----------------------------------------------------------------------------
(* The page request of the traversal as the retried call it is: the while loop
   awaits get_category_products, which async_retry wraps *)

\* the head of the loop past the cap test: get_category_products is called
PageCall ==
    /\ trav.pc = "loop"
    /\ ~CapReached(trav.max_products, trav.total_products)
    /\ rcall.pc = "idle"
    /\ CallStart
    /\ rcall'.func = "get_category_products"

\* faulty variant: a request that raised is made again instead of ending the loop
PageAnsweredOrAgain ==
    /\ trav.pc = "loop"
    /\ rcall.pc \in {"returned", "raised"}
    /\ rcall' = NoCall
    /\ UNCHANGED <<requests, sleeps>>
    /\ IF rcall.pc = "raised"
       THEN UNCHANGED <<trav, fetched, sessions>>
       ELSE /\ fetched' = Append(fetched, trav.current_page)
            /\ LET response == ResponseOf(catalogue, trav.current_page)
               IN IF trav.current_page = 1 /\ ~response.hasMore /\ response.n = 0
                  THEN /\ trav' = [trav EXCEPT !.pc = "done", !.exit = "empty",
                                               !.response = response]
                       /\ UNCHANGED sessions
                  ELSE IF response.n = 0
                  THEN /\ trav' = [trav EXCEPT !.pc = "done", !.exit = "nodata",
                                               !.response = response]
                       /\ UNCHANGED sessions
                  ELSE /\ trav' = [trav EXCEPT !.pc = "items", !.response = response,
                                               !.idx = 1, !.session = trav.current_page]
                       /\ sessions' = sessions + 1
    /\ UNCHANGED <<catalogue, handed, pipeVars, mainVars, crawlVars, norm, hint, boot, chk>>

\* The call has returned the page or raised after its attempts: the tests for an
\* empty category and an empty page and the opening of the session, or the outer
\* except, which ends the loop.
PageAnswered ==
    /\ trav.pc = "loop"
    /\ rcall.pc \in {"returned", "raised"}
    /\ rcall' = NoCall
    /\ UNCHANGED <<requests, sleeps>>
    /\ fetched' = Append(fetched, trav.current_page)
    /\ IF rcall.pc = "raised"
       THEN /\ trav' = [trav EXCEPT !.pc = "done", !.exit = "error"]
            /\ UNCHANGED sessions
       ELSE LET response == ResponseOf(catalogue, trav.current_page)
            IN IF trav.current_page = 1 /\ ~response.hasMore /\ response.n = 0
               THEN /\ trav' = [trav EXCEPT !.pc = "done", !.exit = "empty",
                                            !.response = response]
                    /\ UNCHANGED sessions
               ELSE IF response.n = 0
               THEN /\ trav' = [trav EXCEPT !.pc = "done", !.exit = "nodata",
                                            !.response = response]
                    /\ UNCHANGED sessions
               ELSE /\ trav' = [trav EXCEPT !.pc = "items", !.response = response,
                                            !.idx = 1, !.session = trav.current_page]
                    /\ sessions' = sessions + 1
    /\ UNCHANGED <<catalogue, handed, pipeVars, mainVars, crawlVars, norm, hint, boot, chk>>

----------------------------------------------------------------------------
(* spider_main_process: one task per category behind a semaphore *)

\* the number of categories of the configured range and max_concurrent come from
\* the settings; the model tries these
MaxCategories == 3
MaxConcurrentLimit == 2

\* faulty variant: the semaphore lets a task in at value 0
CanAcquireAtZero(value) == value >= 0

\* asyncio.Semaphore: a task enters while the value is positive
CanAcquire(value) == value > 0

MainIdle ==
    /\ cats = <<>>
    /\ sem = 0
    /\ width = 0

\* category_list, Semaphore(max_concurrent) and one task per category
MainStart ==
    /\ \A c \in DOMAIN cats : cats[c] = "done"
    /\ \E n \in 1..MaxCategories, max_concurrent \in 1..MaxConcurrentLimit :
         /\ cats' = [c \in 1..n |-> "created"]
         /\ sem' = max_concurrent
         /\ width' = max_concurrent
    /\ UNCHANGED <<pipeVars, retryVars, travVars, crawlVars, norm, hint, boot, chk>>

\* process_category_with_semaphore starts and reaches async with semaphore;
\* should_stop is never set, so neither test of it returns
TaskEnter(c) ==
    /\ c \in DOMAIN cats
    /\ cats[c] = "created"
    /\ cats' = [cats EXCEPT ![c] = "waiting"]
    /\ UNCHANGED <<sem, width, pipeVars, retryVars, travVars, crawlVars, norm, hint, boot, chk>>

\* the task acquires the semaphore and calls fetch_category_products
Acquire(c) ==
    /\ c \in DOMAIN cats
    /\ cats[c] = "waiting"
    /\ CanAcquire(sem)
    /\ sem' = sem - 1
    /\ cats' = [cats EXCEPT ![c] = "running"]
    /\ UNCHANGED <<width, pipeVars, retryVars, travVars, crawlVars, norm, hint, boot, chk>>

\* fetch_category_products returns, or raises and is logged; the semaphore is released
TaskFinish(c) ==
    /\ c \in DOMAIN cats
    /\ cats[c] = "running"
    /\ sem' = sem + 1
    /\ cats' = [cats EXCEPT ![c] = "done"]
    /\ UNCHANGED <<width, pipeVars, retryVars, travVars, crawlVars, norm, hint, boot, chk>>

InFlight == {c \in DOMAIN cats : cats[c] = "running"}

----------------------------------------------------------------------------
(* spider_main_process with the traversal of every category: the tasks run
   fetch_category_products concurrently, each with its own locals, and
   interleave at the awaits: the page request and process_single_product *)

\* The crawl follows every traversal step by step and takes fewer categories than
\* the coordinator alone.
MaxCrawlCategories == 2

\* What the upstream holds for category c: category 1 has a full page and a short
\* one, category 2 has one short page, every other category is empty.
CategoryPages(c) ==
    [p \in 1..MaxPages |->
        IF c = 1 /\ p = 1 THEN PageResponse(PageSize, TRUE)
        ELSE IF c = 1 /\ p = 2 THEN PageResponse(1, FALSE)
        ELSE IF c = 2 /\ p = 1 THEN PageResponse(1, FALSE)
        ELSE PageResponse(0, FALSE)]

\* What process_single_product meets in item i of page p of category c: an
\* incomplete summary, for which it returns before any request; a product whose
\* newest QC image is too old, for which it returns at the freshness gate unless
\* a request raised before; or an eligible product, which it stores unless a
\* request or a statement raises.
ItemKind(c, p, i) ==
    CASE (c + 2 * p + i) % 3 = 1 -> "eligible"
      [] (c + 2 * p + i) % 3 = 2 -> "incomplete"
      [] OTHER -> "stale"

NoRun == [pc |-> "idle", max_products |-> 0, total_processed |-> 0, awaited |-> {}]

CrawlIdle ==
    /\ run = NoRun
    /\ ctrav = <<>>
    /\ clog = <<>>

\* spider_main_process is called: category_list, the semaphore, total_processed = 0
\* and one task per category, none of which has run yet
CrawlStart ==
    /\ run.pc \in {"idle", "returned"}
    /\ \E n \in 1..MaxCrawlCategories, max_concurrent \in 1..MaxConcurrentLimit,
          max_products \in Caps :
         /\ cats' = [c \in 1..n |-> "created"]
         /\ sem' = max_concurrent
         /\ width' = max_concurrent
         /\ run' = [NoRun EXCEPT !.pc = "running", !.max_products = max_products]
         /\ ctrav' = [c \in 1..n |-> [NoTraversal EXCEPT !.pc = "ready"]]
         /\ clog' = [c \in 1..n |-> <<>>]
    /\ UNCHANGED <<pipeVars, retryVars, travVars, norm, hint, boot, chk>>

\* The task that holds the semaphore calls fetch_category_products, which sets
\* current_page = 1 and total_products = 0 and calls get_database(); that call
\* raises RuntimeError, outside the try of the loop, when no database was set up.
CatCall(c) ==
    /\ c \in DOMAIN cats
    /\ cats[c] = "running"
    /\ ctrav[c].pc = "ready"
    /\ \/ ctrav' = [ctrav EXCEPT ![c] = [@ EXCEPT !.pc = "loop", !.current_page = 1,
                                                   !.max_products = run.max_products]]
       \/ ctrav' = [ctrav EXCEPT ![c] = [@ EXCEPT !.pc = "done", !.exit = "raised"]]
    /\ UNCHANGED <<run, clog, pipeVars, retryVars, travVars, mainVars, norm, hint, boot, chk>>

\* faulty variant: the loop has no outer except, so a request that raises leaves
\* fetch_category_products as an exception
CatFetchPageUncaught(c) ==
    /\ c \in DOMAIN cats
    /\ ctrav[c].pc = "loop"
    /\ LET t == ctrav[c]
           response == ResponseOf(CategoryPages(c), t.current_page)
       IN IF CapReached(t.max_products, t.total_products)
          THEN /\ ctrav' = [ctrav EXCEPT ![c] = [t EXCEPT !.pc = "done", !.exit = "cap"]]
               /\ UNCHANGED clog
          ELSE /\ clog' = [clog EXCEPT ![c] = Append(@, <<"page", t.current_page, 0>>)]
               /\ \/ ctrav' = [ctrav EXCEPT ![c] = [t EXCEPT !.pc = "done", !.exit = "raised"]]
                  \/ ctrav' = [ctrav EXCEPT ![c] =
                        IF t.current_page = 1 /\ ~response.hasMore /\ response.n = 0
                        THEN [t EXCEPT !.pc = "done", !.exit = "empty", !.response = response]
                        ELSE IF response.n = 0
                        THEN [t EXCEPT !.pc = "done", !.exit = "nodata", !.response = response]
                        ELSE [t EXCEPT !.pc = "items", !.response = response, !.idx = 1,
                                       !.session = t.current_page]]
    /\ UNCHANGED <<run, pipeVars, retryVars, travVars, mainVars, norm, hint, boot, chk>>

\* The head of the while loop of category c: the cap test on its own
\* total_products, the request of the page, the tests for an empty category and an
\* empty page, and the opening of the session of the page.  A request that raises
\* ends the loop through the outer except.
CatFetchPage(c) ==
    /\ c \in DOMAIN cats
    /\ ctrav[c].pc = "loop"
    /\ LET t == ctrav[c]
           response == ResponseOf(CategoryPages(c), t.current_page)
       IN IF CapReached(t.max_products, t.total_products)
          THEN /\ ctrav' = [ctrav EXCEPT ![c] = [t EXCEPT !.pc = "done", !.exit = "cap"]]
               /\ UNCHANGED clog
          ELSE /\ clog' = [clog EXCEPT ![c] = Append(@, <<"page", t.current_page, 0>>)]
               /\ \/ ctrav' = [ctrav EXCEPT ![c] = [t EXCEPT !.pc = "done", !.exit = "error"]]
                  \/ ctrav' = [ctrav EXCEPT ![c] =
                        IF t.current_page = 1 /\ ~response.hasMore /\ response.n = 0
                        THEN [t EXCEPT !.pc = "done", !.exit = "empty", !.response = response]
                        ELSE IF response.n = 0
                        THEN [t EXCEPT !.pc = "done", !.exit = "nodata", !.response = response]
                        ELSE [t EXCEPT !.pc = "items", !.response = response, !.idx = 1,
                                       !.session = t.current_page]]
    /\ UNCHANGED <<run, pipeVars, retryVars, travVars, mainVars, norm, hint, boot, chk>>

\* the for loop of category c hands its next item to process_single_product
CatItemBegin(c) ==
    /\ c \in DOMAIN cats
    /\ ctrav[c].pc = "items"
    /\ ctrav[c].idx <= ctrav[c].response.n
    /\ ~CapReached(ctrav[c].max_products, ctrav[c].total_products)
    /\ clog' = [clog EXCEPT ![c] = Append(@, <<"begin", ctrav[c].current_page, ctrav[c].idx>>)]
    /\ ctrav' = [ctrav EXCEPT ![c] = [@ EXCEPT !.pc = "item"]]
    /\ UNCHANGED <<run, pipeVars, retryVars, travVars, mainVars, norm, hint, boot, chk>>

\* faulty variant: only a product that was stored counts towards max_products
CatItemEndCountsStored(c) ==
    /\ c \in DOMAIN cats
    /\ ctrav[c].pc = "item"
    /\ LET t == ctrav[c]
           kind == ItemKind(c, t.current_page, t.idx)
       IN \/ /\ clog' = [clog EXCEPT ![c] = Append(@, <<"returned", t.current_page, t.idx>>)]
             /\ ctrav' = [ctrav EXCEPT ![c] =
                    [t EXCEPT !.pc = "items", !.idx = @ + 1,
                              !.total_products = IF kind = "eligible" THEN @ + 1 ELSE @]]
          \/ /\ kind # "incomplete"
             /\ clog' = [clog EXCEPT ![c] = Append(@, <<"raised", t.current_page, t.idx>>)]
             /\ ctrav' = [ctrav EXCEPT ![c] = [t EXCEPT !.pc = "items", !.idx = @ + 1]]
    /\ UNCHANGED <<run, pipeVars, retryVars, travVars, mainVars, norm, hint, boot, chk>>

\* process_single_product returns, after it stored the product or skipped it as
\* incomplete or at the freshness gate (total_products += 1), or raises (logged,
\* continue); for an incomplete summary it returns before anything can raise
CatItemEnd(c) ==
    /\ c \in DOMAIN cats
    /\ ctrav[c].pc = "item"
    /\ LET t == ctrav[c]
           kind == ItemKind(c, t.current_page, t.idx)
       IN \/ /\ clog' = [clog EXCEPT ![c] = Append(@, <<"returned", t.current_page, t.idx>>)]
             /\ ctrav' = [ctrav EXCEPT ![c] = [t EXCEPT !.pc = "items", !.idx = @ + 1,
                                                         !.total_products = @ + 1]]
          \/ /\ kind # "incomplete"
             /\ clog' = [clog EXCEPT ![c] = Append(@, <<"raised", t.current_page, t.idx>>)]
             /\ ctrav' = [ctrav EXCEPT ![c] = [t EXCEPT !.pc = "items", !.idx = @ + 1]]
    /\ UNCHANGED <<run, pipeVars, retryVars, travVars, mainVars, norm, hint, boot, chk>>

\* faulty variant: the page is left while items of it are still to be processed
CatEndPageEarly(c) ==
    /\ c \in DOMAIN cats
    /\ ctrav[c].pc = "items"
    /\ LET t == ctrav[c]
       IN ctrav' = [ctrav EXCEPT ![c] =
                IF CapReached(t.max_products, t.total_products)
                THEN [t EXCEPT !.pc = "done", !.exit = "cap", !.session = 0]
                ELSE IF IsLastPage(t.response)
                THEN [t EXCEPT !.pc = "done", !.exit = "last", !.session = 0]
                ELSE [t EXCEPT !.pc = "loop", !.current_page = @ + 1, !.session = 0]]
    /\ UNCHANGED <<run, clog, pipeVars, retryVars, travVars, mainVars, norm, hint, boot, chk>>

\* faulty variant: the session of the page stays open when the page is left
CatEndPageKeepSession(c) ==
    /\ c \in DOMAIN cats
    /\ ctrav[c].pc = "items"
    /\ LET t == ctrav[c]
       IN /\ \/ t.idx > t.response.n
             \/ CapReached(t.max_products, t.total_products)
          /\ ctrav' = [ctrav EXCEPT ![c] =
                IF CapReached(t.max_products, t.total_products)
                THEN [t EXCEPT !.pc = "done", !.exit = "cap"]
                ELSE IF IsLastPage(t.response)
                THEN [t EXCEPT !.pc = "done", !.exit = "last"]
                ELSE [t EXCEPT !.pc = "loop", !.current_page = @ + 1]]
    /\ UNCHANGED <<run, clog, pipeVars, retryVars, travVars, mainVars, norm, hint, boot, chk>>

\* the for loop of category c ends, by exhaustion or by the cap: the session of
\* the page closes, then the cap test, the is_last_page test and the page increment
CatEndPage(c) ==
    /\ c \in DOMAIN cats
    /\ ctrav[c].pc = "items"
    /\ LET t == ctrav[c]
       IN /\ \/ t.idx > t.response.n
             \/ CapReached(t.max_products, t.total_products)
          /\ ctrav' = [ctrav EXCEPT ![c] =
                IF CapReached(t.max_products, t.total_products)
                THEN [t EXCEPT !.pc = "done", !.exit = "cap", !.session = 0]
                ELSE IF IsLastPage(t.response)
                THEN [t EXCEPT !.pc = "done", !.exit = "last", !.session = 0]
                ELSE [t EXCEPT !.pc = "loop", !.current_page = @ + 1, !.session = 0]]
    /\ UNCHANGED <<run, clog, pipeVars, retryVars, travVars, mainVars, norm, hint, boot, chk>>

\* faulty variant: the task has no try around fetch_category_products, so what the
\* traversal raises ends the task with that exception
CatFinishUncaught(c) ==
    /\ c \in DOMAIN cats
    /\ cats[c] = "running"
    /\ ctrav[c].pc = "done"
    /\ sem' = sem + 1
    /\ cats' = [cats EXCEPT ![c] = IF ctrav[c].exit = "raised" THEN "failed" ELSE "done"]
    /\ UNCHANGED <<width, crawlVars, pipeVars, retryVars, travVars, norm, hint, boot, chk>>

\* faulty variant: a traversal that raises leaves the task without releasing the
\* semaphore
CatFinishKeepSlot(c) ==
    /\ c \in DOMAIN cats
    /\ cats[c] = "running"
    /\ ctrav[c].pc = "done"
    /\ sem' = IF ctrav[c].exit = "raised" THEN sem ELSE sem + 1
    /\ cats' = [cats EXCEPT ![c] = "done"]
    /\ UNCHANGED <<width, crawlVars, pipeVars, retryVars, travVars, norm, hint, boot, chk>>

\* fetch_category_products has returned, or has raised and the task has logged it;
\* leaving async with releases the semaphore and the task ends without exception
CatFinish(c) ==
    /\ c \in DOMAIN cats
    /\ cats[c] = "running"
    /\ ctrav[c].pc = "done"
    /\ sem' = sem + 1
    /\ cats' = [cats EXCEPT ![c] = "done"]
    /\ UNCHANGED <<width, crawlVars, pipeVars, retryVars, travVars, norm, hint, boot, chk>>

\* for task in asyncio.as_completed(tasks): await task, then total_processed += 1;
\* a task that ended with an exception is logged and not counted
MainAwait(c) ==
    /\ c \in DOMAIN cats
    /\ run.pc = "running"
    /\ cats[c] \in {"done", "failed"}
    /\ c \notin run.awaited
    /\ run' = [run EXCEPT !.awaited = @ \cup {c},
                          !.total_processed = IF cats[c] = "done" THEN @ + 1 ELSE @]
    /\ UNCHANGED <<ctrav, clog, pipeVars, retryVars, travVars, mainVars, norm, hint, boot, chk>>

\* every task was awaited: spider_main_process logs the count and returns
MainReturn ==
    /\ run.pc = "running"
    /\ run.awaited = DOMAIN cats
    /\ run' = [run EXCEPT !.pc = "returned"]
    /\ UNCHANGED <<ctrav, clog, pipeVars, retryVars, travVars, mainVars, norm, hint, boot, chk>>

----------------------------------------------------------------------------
(* The normalisation of one product: the atlas loop of process_single_product,
   page by page, and prepare_product_data on what the loop accumulated *)

\* the longest qcList of a detail response and the number of atlas pages the
\* upstream holds for a product
MaxQcList == 2
MaxAtlasPages == 2

\* offsets of the host's time zone from UTC, in units of 1000 s: UTC and UTC+5
Zones == {0, 18}

\* QC entries of a detail response: the instant of the clock in seconds and in
\* milliseconds, an earlier instant in milliseconds, the 30-day boundary and 1000 s
\* before it, the 10^10 threshold itself and a millisecond value just above it, an
\* entry with neither url nor time
DetailQcPool ==
    { Qc("a", Epoch), Qc("a", Epoch * 1000), Qc("a", (Epoch - 20) * 1000),
      Qc("b", Epoch - Window), Qc("b", Epoch - Window - 10),
      Qc("c", MsThreshold), Qc("c", MsThreshold + 1000), Qc("", NULL) }

\* QC entries of the atlas pages
AtlasQcPool == { Qc("a", Epoch - 5), Qc("d", (Epoch - Window - 10) * 1000) }

RECURSIVE SeqsUpTo(_, _)
SeqsUpTo(S, n) ==
    IF n = 0 THEN {<<>>}
    ELSE LET shorter == SeqsUpTo(S, n - 1)
         IN shorter \cup {Append(q, x) : q \in shorter, x \in S}

DetailQcLists == SeqsUpTo(DetailQcPool, MaxQcList)

AtlasPages == {AtlasPage(qcs, more) : qcs \in SeqsUpTo(AtlasQcPool, 1), more \in BOOLEAN}

AtlasCatalogues == [1..MaxAtlasPages -> AtlasPages]

\* get_product_atlas for a page, the request having succeeded
AtlasResponseOf(pages, page) ==
    IF page \in DOMAIN pages THEN pages[page] ELSE AtlasPage(<<>>, FALSE)

NoNorm == [pc |-> "idle", detail |-> Detail("", NULL, <<>>), pages |-> <<>>, zone |-> 0,
           atlas_page |-> 0, atlas_responses |-> <<>>, asked |-> <<>>, failed |-> FALSE,
           qc_images |-> <<>>, all_qc_times |-> <<>>, last_qc_time |-> NULL, pd |-> NoData]

NormIdle == norm = NoNorm

\* process_single_product requests the detail of a complete item.  With the
\* response it sets atlas_responses = [] and atlas_page = 1; a request that raises
\* reaches the except of the function, which rolls back and re-raises.
NormStart ==
    /\ norm.pc = "idle"
    /\ \/ \E qcs \in DetailQcLists, pages \in AtlasCatalogues, zone \in Zones :
            norm' = [NoNorm EXCEPT !.pc = "atlas", !.detail = Detail("9.90", 2, qcs),
                                   !.pages = pages, !.zone = zone, !.atlas_page = 1]
       \/ norm' = [NoNorm EXCEPT !.pc = "raised"]
    /\ UNCHANGED <<pipeVars, retryVars, travVars, mainVars, crawlVars, hint, boot, chk>>

\* faulty variant: the test of hasMore comes before the append
AtlasFetchFlagFirst ==
    /\ norm.pc = "atlas"
    /\ LET atlas_response == AtlasResponseOf(norm.pages, norm.atlas_page)
           asked == Append(norm.asked, norm.atlas_page)
       IN \/ norm' = [norm EXCEPT !.pc = "fetched", !.asked = asked, !.failed = TRUE]
          \/ norm' =
               IF atlas_response.atlasList = <<>> \/ ~atlas_response.hasMore
               THEN [norm EXCEPT !.pc = "fetched", !.asked = asked]
               ELSE [norm EXCEPT !.asked = asked, !.atlas_page = @ + 1,
                        !.atlas_responses = Append(@, atlas_response)]
    /\ UNCHANGED <<pipeVars, retryVars, travVars, mainVars, crawlVars, hint, boot, chk>>

\* faulty variant: the atlas request has no try of its own, so a request that
\* raises fails the product
AtlasFetchUncaught ==
    /\ norm.pc = "atlas"
    /\ LET atlas_response == AtlasResponseOf(norm.pages, norm.atlas_page)
           asked == Append(norm.asked, norm.atlas_page)
       IN \/ norm' = [norm EXCEPT !.pc = "raised", !.asked = asked, !.failed = TRUE]
          \/ norm' =
               IF atlas_response.atlasList = <<>>
               THEN [norm EXCEPT !.pc = "fetched", !.asked = asked]
               ELSE IF ~atlas_response.hasMore
               THEN [norm EXCEPT !.pc = "fetched", !.asked = asked,
                        !.atlas_responses = Append(@, atlas_response)]
               ELSE [norm EXCEPT !.asked = asked, !.atlas_page = @ + 1,
                        !.atlas_responses = Append(@, atlas_response)]
    /\ UNCHANGED <<pipeVars, retryVars, travVars, mainVars, crawlVars, hint, boot, chk>>

\* One pass of the atlas loop: the request of atlas_page, which may raise (logged,
\* break); an empty atlasList breaks; the response is appended; hasMore false
\* breaks; otherwise atlas_page += 1.
AtlasFetch ==
    /\ norm.pc = "atlas"
    /\ LET atlas_response == AtlasResponseOf(norm.pages, norm.atlas_page)
           asked == Append(norm.asked, norm.atlas_page)
       IN \/ norm' = [norm EXCEPT !.pc = "fetched", !.asked = asked, !.failed = TRUE]
          \/ norm' =
               IF atlas_response.atlasList = <<>>
               THEN [norm EXCEPT !.pc = "fetched", !.asked = asked]
               ELSE IF ~atlas_response.hasMore
               THEN [norm EXCEPT !.pc = "fetched", !.asked = asked,
                        !.atlas_responses = Append(@, atlas_response)]
               ELSE [norm EXCEPT !.asked = asked, !.atlas_page = @ + 1,
                        !.atlas_responses = Append(@, atlas_response)]
    /\ UNCHANGED <<pipeVars, retryVars, travVars, mainVars, crawlVars, hint, boot, chk>>

\* the item and the category of the product that is normalised
NormItem == [id |-> 1, itemId |-> "A", mallType |-> "tb"]

\* prepare_product_data on the detail and the accumulated atlas responses; its
\* locals qc_images, all_qc_times and last_qc_time are kept next to what it returns
Prepare ==
    /\ norm.pc = "fetched"
    /\ LET entries == AtlasQcEntries(norm.atlas_responses)
           times == AllQcTimes(norm.detail.qcList, entries)
       IN norm' = [norm EXCEPT
             !.pc = "prepared",
             !.qc_images = AddAtlasImages(DetailQcImages(norm.detail.qcList), entries),
             !.all_qc_times = times,
             !.last_qc_time = LastQcTime(times, norm.zone),
             !.pd = PrepareProductData(NormItem, CategoryOf["w1"], norm.detail,
                                       norm.atlas_responses, norm.zone, now)]
    /\ UNCHANGED <<pipeVars, retryVars, travVars, mainVars, crawlVars, hint, boot, chk>>

\* process_single_product goes on with what prepare_product_data returned: the
\* should_save test and the existence check are next, on the session of the page
GoOnToGate ==
    /\ norm.pc = "prepared"
    /\ pc["w1"] = "idle"
    /\ norm' = [norm EXCEPT !.pc = "gate"]
    /\ cur' = [cur EXCEPT !["w1"] = [InitCur EXCEPT !.item = NormItem, !.task = task_id,
                                                   !.atlas_n = Len(norm.atlas_responses),
                                                   !.tgate = now, !.pd = norm.pd]]
    /\ pc' = [pc EXCEPT !["w1"] = "prepared"]
    /\ UNCHANGED <<products, tasks, events, now, tz, task_id, next_id, sess, hist>>
    /\ UNCHANGED <<retryVars, travVars, mainVars, crawlVars, hint, boot, chk>>

----------------------------------------------------------------------------
(* get_resume_category_id: the resume hint read from t_products *)

\* The columns of a row the two statements look at.  categoryId is nullable; the
\* batch identifiers are those of this hour and of the hour before.
RowPool ==
    [categoryId : {NULL, 4113, 4114}, status : {Active, SoftDeleted},
     update_task_id : {BatchId(Epoch), BatchId(Epoch - 1)}]

SetMax(S) == CHOOSE x \in S : \A y \in S : y <= x

\* faulty variant: the second statement does not filter on status
GetResumeCategoryIdAnyStatus(rows, today_task_id) ==
    LET ids == {r.categoryId : r \in {q \in rows : q.categoryId # NULL /\ q.status = Active}}
    IN IF ids = {} THEN NULL
       ELSE LET max_category_id == SetMax(ids)
            IN IF \E r \in rows : /\ r.categoryId = max_category_id
                                  /\ r.update_task_id = today_task_id
               THEN max_category_id
               ELSE NULL

\* SELECT max(categoryId) over the Active rows with a categoryId; None without
\* one; then a row with that categoryId, today's update_task_id and status 0
GetResumeCategoryId(rows, today_task_id) ==
    LET ids == {r.categoryId : r \in {q \in rows : q.categoryId # NULL /\ q.status = Active}}
    IN IF ids = {} THEN NULL
       ELSE LET max_category_id == SetMax(ids)
            IN IF \E r \in rows : /\ r.categoryId = max_category_id
                                  /\ r.update_task_id = today_task_id
                                  /\ r.status = Active
               THEN max_category_id
               ELSE NULL

NoHint == [pc |-> "idle", table |-> {}, today_task_id |-> 0, error |-> FALSE, result |-> NULL]

ResumeIdle == hint = NoHint

\* The query runs against some table for today's batch; a statement that raises
\* is logged and the function returns None.
ResumeQuery ==
    /\ hint.pc = "idle"
    /\ \E table \in SUBSET RowPool, error \in BOOLEAN :
         hint' = [pc |-> "returned", table |-> table, today_task_id |-> task_id,
                  error |-> error,
                  result |-> IF error THEN NULL ELSE GetResumeCategoryId(table, task_id)]
    /\ UNCHANGED <<pipeVars, retryVars, travVars, mainVars, crawlVars, norm, boot, chk>>

----------------------------------------------------------------------------
(* main: the startup that precedes the crawl, and the cleanup that follows it *)

NoBoot == [pc |-> "start", database |-> "none", broker |-> "none"]

\* init_database and db.init_db(); a failure is logged and ends the process with
\* sys.exit(1)
InitDatabase ==
    /\ boot.pc = "start"
    /\ \/ boot' = [boot EXCEPT !.pc = "broker", !.database = "up"]
       \/ boot' = [boot EXCEPT !.pc = "exited", !.database = "failed"]
    /\ UNCHANGED <<chk, pipeVars, retryVars, travVars, mainVars, crawlVars, norm, hint>>

\* mq_service.initialize(); a failure is logged as a warning, _initialized is set
\* to False and main goes on
InitBroker ==
    /\ boot.pc = "broker"
    /\ \/ boot' = [boot EXCEPT !.pc = "ready", !.broker = "up"]
       \/ boot' = [boot EXCEPT !.pc = "ready", !.broker = "failed"]
    /\ UNCHANGED <<chk, pipeVars, retryVars, travVars, mainVars, crawlVars, norm, hint>>

\* the API client and the SpiderService are built, update_task_id and max_products
\* are read, and spider_main_process is called
RunSpider ==
    /\ boot.pc = "ready"
    /\ boot' = [boot EXCEPT !.pc = "crawl"]
    /\ UNCHANGED <<chk, pipeVars, retryVars, travVars, mainVars, crawlVars, norm, hint>>

\* spider_main_process has returned; finally: the client, the broker connection
\* and the database are closed
Cleanup ==
    /\ boot.pc = "crawl"
    /\ run.pc = "returned"
    /\ boot' = [boot EXCEPT !.pc = "closed"]
    /\ UNCHANGED <<chk, pipeVars, retryVars, travVars, mainVars, crawlVars, norm, hint>>

----------------------------------------------------------------------------
(* check_and_update_existing_product, called on its own *)

\* a stored row of product 1, as an earlier ingestion of the fresh payload left it
StoredRow(status) ==
    [NewProduct(PrepareProductData([id |-> 1, itemId |-> "A", mallType |-> "tb"],
                                   CategoryOf["w1"], Payload("fresh").detail,
                                   Payload("fresh").atlas, 0, Epoch),
                BatchId(Epoch), 1, Epoch) EXCEPT !.status = status]

\* the tables the function is tried on, and the arguments it is tried with
CheckTables == {{}, {StoredRow(Active)}, {StoredRow(SoftDeleted)}}
CheckTimes == {NULL, Epoch - Window - 1, Epoch - Window, Epoch - 1}
CheckCounts == {0, 1, 3}

\* The SELECT by findqc_id, the decision and the flush: the operation type and
\* the table as the session sees it afterwards.
CheckAndUpdateExistingProduct(rows, findqc_id, last_qc_time, qc_count_30days, clock) ==
    LET found == {p \in rows : p.findqc_id = findqc_id}
    IN IF found = {}
       THEN [op |-> "not_exists", rows |-> rows]
       ELSE LET product == CHOOSE p \in found : TRUE
                r == Lifecycle(product, last_qc_time, qc_count_30days, clock)
            IN [op |-> r.op, rows |-> (rows \ {product}) \cup {ApplyUpdate(product, r.cols)}]

NoCheck == [pc |-> "idle", table |-> {}, findqc_id |-> 0, last_qc_time |-> NULL,
            qc_count_30days |-> 0, clock |-> Epoch, op |-> "none", after |-> {}]

\* one call of the function on a table, with a clock at or after the Epoch
CheckCall ==
    /\ chk.pc = "idle"
    /\ \E table \in CheckTables, findqc_id \in FindqcIds, last_qc_time \in CheckTimes,
          qc_count_30days \in CheckCounts, clock \in Epoch..(Epoch + MaxTicks) :
         LET r == CheckAndUpdateExistingProduct(table, findqc_id, last_qc_time,
                                                qc_count_30days, clock)
         IN chk' = [pc |-> "returned", table |-> table, findqc_id |-> findqc_id,
                    last_qc_time |-> last_qc_time, qc_count_30days |-> qc_count_30days,
                    clock |-> clock, op |-> r.op, after |-> r.rows]
    /\ UNCHANGED <<boot, pipeVars, retryVars, travVars, mainVars, crawlVars, norm, hint>>

----------------------------------------------------------------------------
(* Initial states and specifications *)

InitBase ==
    /\ products = {}
    /\ tasks = <<>>
    /\ events = <<>>
    /\ now = Epoch
    /\ tz \in TzOffsets
    /\ task_id = BatchId(Epoch)
    /\ next_id = 1
    /\ pc = [w \in Workers |-> "idle"]
    /\ cur = [w \in Workers |-> InitCur]
    /\ sess = [w \in Workers |-> EmptySession]

(* Spec: two category workers whose categories both list product 1 *)

Init ==
    /\ InitBase /\ hist = HistOff /\ RetryIdle /\ TravIdle /\ MainIdle
    /\ CrawlIdle /\ NormIdle /\ ResumeIdle /\ boot = NoBoot /\ chk = NoCheck

Next ==
    \/ \E w \in Workers : FetchAndPrepare(w, SharedItems)
    \/ \E w \in Workers : GateAndCheck(w)
    \/ \E w \in Workers : CommitExisting(w)
    \/ \E w \in Workers : SaveNew(w)
    \/ \E w \in Workers : CreateTask(w)
    \/ \E w \in Workers : CommitNew(w)
    \/ \E w \in Workers : Publish(w)
    \/ \E w \in Workers : DbError(w)
    \/ Tick
    \/ NewRun

Spec == Init /\ [][Next]_vars

(* SpecSeq: one worker ingesting one item after the other, each ingestion recorded *)

InitSeq ==
    /\ InitBase /\ hist = NoHist /\ RetryIdle /\ TravIdle /\ MainIdle
    /\ CrawlIdle /\ NormIdle /\ ResumeIdle /\ boot = NoBoot /\ chk = NoCheck

NextSeq ==
    \/ FetchAndPrepare("w1", SharedItems)
    \/ GateAndCheck("w1")
    \/ CommitExisting("w1")
    \/ SaveNew("w1")
    \/ CreateTask("w1")
    \/ CommitNew("w1")
    \/ Publish("w1")
    \/ DbError("w1")
    \/ Tick
    \/ NewRun

SpecSeq == InitSeq /\ [][NextSeq]_vars

(* SpecPage: one worker with one session ingesting the items of a page that
   lists two products, one after the other, on a clock that stands still *)

NextPage ==
    \/ FetchAndPrepare("w1", Items)
    \/ GateAndCheck("w1")
    \/ CommitExisting("w1")
    \/ SaveNew("w1")
    \/ CreateTask("w1")
    \/ CommitNew("w1")
    \/ Publish("w1")
    \/ DbError("w1")

SpecPage == Init /\ [][NextPage]_vars

(* SpecRetry: calls of the wrapped methods, one after the other *)

NextRetry ==
    \/ CallStart
    \/ Attempt
    \/ Sleep

SpecRetry == Init /\ [][NextRetry]_vars

(* SpecCat: traversals of one category, one after the other *)

NextCat ==
    \/ TravStart
    \/ FetchPage
    \/ ProcessItem
    \/ EndPage

SpecCat == Init /\ [][NextCat]_vars

(* SpecMain: runs of spider_main_process over the categories of the range *)

NextMain ==
    \/ MainStart
    \/ \E c \in 1..MaxCategories : TaskEnter(c)
    \/ \E c \in 1..MaxCategories : Acquire(c)
    \/ \E c \in 1..MaxCategories : TaskFinish(c)

SpecMain == Init /\ [][NextMain]_vars

(* SpecCrawl: runs of spider_main_process in which every task traverses its
   category; SpecCrawlFair adds that a step that can be taken is taken *)

NextCrawl ==
    \/ CrawlStart
    \/ \E c \in 1..MaxCrawlCategories : TaskEnter(c)
    \/ \E c \in 1..MaxCrawlCategories : Acquire(c)
    \/ \E c \in 1..MaxCrawlCategories : CatCall(c)
    \/ \E c \in 1..MaxCrawlCategories : CatFetchPage(c)
    \/ \E c \in 1..MaxCrawlCategories : CatItemBegin(c)
    \/ \E c \in 1..MaxCrawlCategories : CatItemEnd(c)
    \/ \E c \in 1..MaxCrawlCategories : CatEndPage(c)
    \/ \E c \in 1..MaxCrawlCategories : CatFinish(c)
    \/ \E c \in 1..MaxCrawlCategories : MainAwait(c)
    \/ MainReturn

SpecCrawl == Init /\ [][NextCrawl]_vars

SpecCrawlFair == SpecCrawl /\ WF_vars(NextCrawl)

(* SpecNorm: the normalisation of a product, for every input of the pools *)

NextNorm ==
    \/ NormStart
    \/ AtlasFetch
    \/ Prepare

SpecNorm == Init /\ [][NextNorm]_vars

(* SpecResume: the resume query against a table of every content *)

NextResume == ResumeQuery

SpecResume == Init /\ [][NextResume]_vars

(* SpecFetch: the traversal of one category with every page request made through
   async_retry.  SpecFetchFair adds that the event loop goes on running the
   coroutine: a step that can be taken is taken in the end. *)

\* the categories traversed: two pages ending in a short one, one short page,
\* and full pages up to the end of what the upstream has
FetchCatalogues ==
    {CategoryPages(1), CategoryPages(2), [p \in 1..MaxPages |-> PageResponse(PageSize, TRUE)]}

\* what an attempt of a page request meets: the page, a retryable status, a
\* retryable transport error, a terminal status
FetchOutcomes == {Ok, HTTPStatusError(503), OtherError("ReadTimeout"), HTTPStatusError(404)}

NextFetch ==
    \/ TravStart /\ catalogue' \in FetchCatalogues
    \/ PageCall /\ rcall'.delay = 1 /\ rcall'.backoff = 2
    \/ Attempt /\ requests'[Len(requests')] \in FetchOutcomes
    \/ Sleep
    \/ PageAnswered
    \/ ProcessItem
    \/ EndPage

SpecFetch == Init /\ [][NextFetch]_vars

SpecFetchFair == SpecFetch /\ WF_vars(NextFetch)

(* SpecItem: process_single_product for one complete item, from the detail request
   through the atlas loop and prepare_product_data to the commit and the publish;
   the host is on UTC and the detail lists at most one QC image *)

NextItem ==
    \/ NormStart /\ norm'.zone = 0 /\ Len(norm'.detail.qcList) <= 1
    \/ AtlasFetch
    \/ Prepare
    \/ GoOnToGate
    \/ GateAndCheck("w1")
    \/ SaveNew("w1")
    \/ CreateTask("w1")
    \/ CommitNew("w1")
    \/ Publish("w1")
    \/ DbError("w1")

SpecItem == Init /\ [][NextItem]_vars

(* SpecBoot: main from its start to the cleanup, with the crawl it runs *)

NextBoot ==
    \/ InitDatabase
    \/ InitBroker
    \/ RunSpider
    \/ boot.pc = "crawl" /\ run.pc = "idle" /\ CrawlStart
    \/ \E c \in 1..MaxCrawlCategories : TaskEnter(c)
    \/ \E c \in 1..MaxCrawlCategories : Acquire(c)
    \/ \E c \in 1..MaxCrawlCategories : CatCall(c)
    \/ \E c \in 1..MaxCrawlCategories : CatFetchPage(c)
    \/ \E c \in 1..MaxCrawlCategories : CatItemBegin(c)
    \/ \E c \in 1..MaxCrawlCategories : CatItemEnd(c)
    \/ \E c \in 1..MaxCrawlCategories : CatEndPage(c)
    \/ \E c \in 1..MaxCrawlCategories : CatFinish(c)
    \/ \E c \in 1..MaxCrawlCategories : MainAwait(c)
    \/ MainReturn
    \/ Cleanup

SpecBoot == Init /\ [][NextBoot]_vars

(* SpecCheck: check_and_update_existing_product on every table and argument *)

NextCheck == CheckCall

SpecCheck == Init /\ [][NextCheck]_vars


----------------------------------------------------------------------------
(* What an ingestion in progress was handed by the upstream *)

AtlasOf(c) == SubSeq(Payload(c.pl).atlas, 1, c.atlas_n)

QcImagesOf(c) ==
    AddAtlasImages(DetailQcImages(Payload(c.pl).detail.qcList), AtlasQcEntries(AtlasOf(c)))

LastQcTimeOf(c) ==
    LastQcTime(AllQcTimes(Payload(c.pl).detail.qcList, AtlasQcEntries(AtlasOf(c))), tz)

\* the newest QC image is older than 30 days on the clock of the freshness gate
StaleAtGate(c) ==
    /\ QcImagesOf(c) # <<>>
    /\ LastQcTimeOf(c) # NULL
    /\ LastQcTimeOf(c) < c.tgate - Window

Ineligible(c) ==
    \/ QcImagesOf(c) = <<>>
    \/ LastQcTimeOf(c) = NULL
    \/ LastQcTimeOf(c) < c.tgate - Window

\* the QC state of the rows of findqc_id f after the step
QcStateAfter(f) ==
    {[status |-> p.status, last_qc_time |-> p.last_qc_time,
      qc_count_30days |-> p.qc_count_30days] : p \in {q \in products' : q.findqc_id = f}}

\* the ingestion worker w is about to finish repeats the recorded one: the same item,
\* the same detail and atlas responses, and the clock has not moved since
Repeats(w) ==
    /\ hist.on
    /\ hist.rows # {}
    /\ cur[w].item = hist.item
    /\ cur[w].pl = hist.pl
    /\ cur[w].atlas_n = hist.atlas_n
    /\ cur[w].tgate = hist.tgate
    /\ now = hist.tgate

----------------------------------------------------------------------------
(* Properties *)

\* C1: in every reachable state there is at most one Product row per findqc_id,
\* whatever the interleaving of the workers, the same findqc_id being listed in
\* the categories of both included.
OneRowPerFindqcId == \A f \in FindqcIds : Cardinality(RowsOf(f)) <= 1

\* one worker has committed the row of a product while the other, which saw no
\* row, is about to insert the same product
InsertRace ==
    \E w, v \in Workers :
        /\ w # v
        /\ pc[w] = "publish"
        /\ pc[v] = "save"
        /\ cur[w].item.id = cur[v].item.id
        /\ RowsOf(cur[v].item.id) # {}

\* C2: for every findqc_id at most one new-product event is ever published, over
\* repeated ingestions, runs and concurrent workers.
OneEventPerFindqcId == \A f \in FindqcIds : Cardinality(EventsOf(f)) <= 1

\* the event of a product is out and a later run is ingesting the product again
ReingestAfterEvent ==
    \E w \in Workers :
        /\ pc[w] = "commit_exists"
        /\ EventsOf(cur[w].item.id) # {}
        /\ \E i \in EventsOf(cur[w].item.id) : events[i].task_id # cur[w].task

\* C3: an ingestion that repeats, on the same clock, the payload of the ingestion
\* just before it, which stored the product, ends with exactly one Product row and
\* at most one TaskProduct row of the findqc_id, and with status, last_qc_time and
\* qc_count_30days as the first ingestion stored them.
ReingestIdempotent ==
    [][(pc["w1"] # "idle" /\ pc'["w1"] = "idle" /\ Repeats("w1")) =>
          LET f == cur["w1"].item.id
          IN /\ Cardinality({q \in products' : q.findqc_id = f}) = 1
             /\ Cardinality({i \in 1..Len(tasks') : tasks'[i].findqc_id = f}) <= 1
             /\ QcStateAfter(f) = hist.rows]_vars

\* the second ingestion of the payload has refreshed the row and is about to commit
SecondIngestion ==
    /\ pc["w1"] = "commit_exists"
    /\ cur["w1"].op = "exists_updated"
    /\ Repeats("w1")

\* C4, as stated: an ingestion of a product that has an Active row and whose newest
\* QC image is older than 30 days ends with the row SoftDeleted, no TaskProduct
\* created and no event published.
StaleSoftDeletes ==
    [][\A w \in Workers :
          (/\ pc[w] = "prepared"
           /\ pc'[w] = "idle"
           /\ StaleAtGate(cur[w])
           /\ \E p \in RowsOf(cur[w].item.id) : p.status = Active)
          => /\ \A q \in products' : q.findqc_id = cur[w].item.id => q.status = SoftDeleted
             /\ tasks' = tasks
             /\ events' = events]_vars

\* C5: an ingestion whose QC image list is empty, or whose last_qc_time is None or
\* older than 30 days, returns at the freshness gate: nothing is written, flushed
\* or published, whether or not the product has a row.
IneligibleWritesNothing ==
    [][\A w \in Workers :
          (pc[w] = "prepared" /\ Ineligible(cur[w]) /\ pc'[w] # pc[w])
          => /\ pc'[w] = "idle"
             /\ UNCHANGED <<products, tasks, events, sess, next_id>>]_vars

\* an ineligible payload of a product that has a row stands at the gate
IneligibleAtGate ==
    \E w \in Workers :
        /\ pc[w] = "prepared"
        /\ Ineligible(cur[w])
        /\ RowsOf(cur[w].item.id) # {}

\* C6: an event is published only for a product whose Product row and TaskProduct
\* row of the same batch are committed, and the transaction that commits a new
\* Product row commits it Active together with its Pending TaskProduct row.
PublishAfterCommit ==
    [][/\ \A i \in (Len(events) + 1)..Len(events') :
            /\ \E p \in products :
                  p.id = events'[i].product_id /\ p.findqc_id = events'[i].findqc_id
            /\ \E j \in 1..Len(tasks) :
                  /\ tasks[j].findqc_id = events'[i].findqc_id
                  /\ tasks[j].update_task_id = events'[i].task_id
       /\ \A q \in products' :
            (\A p \in products : p.id # q.id)
            => /\ q.status = Active
               /\ \E j \in (Len(tasks) + 1)..Len(tasks') :
                     /\ tasks'[j].findqc_id = q.findqc_id
                     /\ tasks'[j].update_task_id = q.update_task_id
                     /\ tasks'[j].status = Pending]_vars

\* an event is out for a committed product
EventPublished ==
    \E i \in 1..Len(events) :
        /\ \E p \in products : p.id = events[i].product_id
        /\ \A w \in Workers : pc[w] = "idle"

\* C7: an ingestion that found a row of its findqc_id, on the refresh path and on
\* the soft-delete path alike, creates no TaskProduct row and publishes no event;
\* a TaskProduct row is created only in the step that inserts a new Product row of
\* its findqc_id.
TaskOnlyWithNewProduct ==
    [][/\ \A w \in Workers :
            (cur[w].op \in {"exists_updated", "exists_deleted"} /\ pc'[w] # pc[w])
            => tasks' = tasks /\ events' = events /\ pc'[w] = "idle"
       /\ \A j \in (Len(tasks) + 1)..Len(tasks') :
            \E q \in products' :
                /\ q.findqc_id = tasks'[j].findqc_id
                /\ \A p \in products : p.id # q.id]_vars

\* the soft-delete of an existing row is flushed and about to be committed
SoftDeletePending ==
    \E w \in Workers :
        /\ pc[w] = "commit_exists"
        /\ cur[w].op = "exists_deleted"
        /\ TasksOf(cur[w].item.id) # {}

\* C8: the refresh of a row that exists changes last_qc_time, qc_count_30days and
\* last_update and nothing else of the row, and publishes no event.
RefreshFrame ==
    [][\A w \in Workers :
          (pc[w] = "commit_exists" /\ cur[w].op = "exists_updated" /\ pc'[w] # pc[w])
          => /\ \A p \in RowsOf(cur[w].item.id) :
                   \E q \in products' :
                       /\ q.id = p.id
                       /\ \A c \in DOMAIN p \ {"last_qc_time", "qc_count_30days", "last_update"} :
                              q[c] = p[c]
             /\ events' = events]_vars

\* the refresh of a soft-deleted row by a payload that differs from the stored QC
\* state is about to be committed
RefreshPending ==
    \E w \in Workers :
        /\ pc[w] = "commit_exists"
        /\ cur[w].op = "exists_updated"
        /\ \E p \in RowsOf(cur[w].item.id) :
              p.status = SoftDeleted /\ p.last_qc_time # cur[w].pd.last_qc_time

\* C9, as stated: after a commit that wrote to a Product row (creation, refresh or
\* soft-delete) the row's update_task_id is the batch identifier of the run of the
\* ingestion that wrote it.
WrittenRowCarriesBatchId ==
    [][\A w \in Workers :
          (pc[w] \in {"commit_exists", "commit_new"} /\ pc'[w] # pc[w])
          => \A q \in products' \ products : q.update_task_id = cur[w].task]_vars

\* C10: no step removes a Product row or changes the findqc_id of one.
RowsOnlyGrow ==
    [][\A p \in products :
          \E q \in products' : q.id = p.id /\ q.findqc_id = p.findqc_id]_vars

\* a row has left active use: it is there, SoftDeleted
SoftDeletedRowKept ==
    \E p \in products : p.status = SoftDeleted /\ \A w \in Workers : pc[w] = "idle"

\* C18: a failure on the creation path discards the uncommitted writes of that
\* ingestion and nothing else: the committed rows are as they were, so the rows of
\* the items ingested before stay, and every committed Product row has the
\* TaskProduct row that was committed with it.
RollbackKeepsCommitted ==
    [][/\ \A q \in products' :
            \E j \in 1..Len(tasks') :
                /\ tasks'[j].findqc_id = q.findqc_id
                /\ tasks'[j].update_task_id = q.update_task_id
       /\ \A w \in Workers :
            (pc[w] \in {"save", "task", "commit_new"} /\ pc'[w] = "idle")
            => /\ products' = products
               /\ tasks' = tasks
               /\ sess'[w] = EmptySession]_vars

\* the row of an earlier item is committed and the insert of a later item, of
\* another product, is flushed and may fail
LaterItemMayFail ==
    /\ pc["w1"] = "commit_new"
    /\ sess["w1"].ins # {}
    /\ \E p \in products : p.findqc_id # cur["w1"].item.id

\* C19: a publish that fails leaves the committed Product and TaskProduct rows as
\* they are and ends the ingestion; it is not tried again, and once the rows of a
\* findqc_id are committed and no creating ingestion of it is left to publish, no
\* step publishes an event for it.
FailedPublishStands ==
    [][/\ \A w \in Workers :
            (pc[w] = "publish" /\ pc'[w] # pc[w])
            => /\ pc'[w] = "idle"
               /\ products' = products
               /\ tasks' = tasks
               /\ Len(events') <= Len(events) + 1
       /\ \A f \in FindqcIds :
            (/\ RowsOf(f) # {}
             /\ \A w \in Workers : ~(pc[w] = "publish" /\ cur[w].item.id = f))
            => \A i \in (Len(events) + 1)..Len(events') : events'[i].findqc_id # f]_vars

\* the publish of a product failed and a later ingestion finds its rows
MissedEventReingested ==
    \E w \in Workers :
        /\ pc[w] = "commit_exists"
        /\ TasksOf(cur[w].item.id) # {}
        /\ EventsOf(cur[w].item.id) = {}
        /\ \A v \in Workers : pc[v] # "publish"

----------------------------------------------------------------------------
(* Properties of async_retry *)

RECURSIVE Pow(_, _)
Pow(b, n) == IF n = 0 THEN 1 ELSE b * Pow(b, n - 1)

\* a failure the retry policy names retryable: a transport error, HTTP 5xx, HTTP 429
RetryableFailure(o) ==
    \/ o.kind \in RequestErrors
    \/ o.kind = "HTTPStatusError" /\ (o.status \in 500..599 \/ o.status = 429)

\* a failure the retry policy names terminal: another HTTP 4xx, or a body that
\* does not parse
TerminalFailure(o) ==
    \/ o.kind = "HTTPStatusError" /\ o.status \in 400..499 /\ o.status # 429
    \/ o.kind = "JSONDecodeError"

\* C11: a call makes at most max_attempts attempts; an attempt is followed by
\* another only if it failed with a retryable failure, so the attempts end at the
\* first success or terminal failure; a call that returns returns the body of its
\* last attempt; and when all max_attempts attempts failed with a retryable
\* failure the call raises the error of the last one.
AttemptsBoundedLastErrorRaised ==
    rcall.pc # "idle" =>
        /\ Len(requests) <= rcall.max_attempts
        /\ \A i \in 1..(Len(requests) - 1) : RetryableFailure(requests[i])
        /\ rcall.pc = "returned" =>
              requests # <<>> /\ requests[Len(requests)] = Ok /\ rcall.result = Ok
        /\ (/\ Len(requests) = rcall.max_attempts
            /\ \A i \in 1..Len(requests) : RetryableFailure(requests[i]))
           => rcall.pc = "raised" /\ rcall.result = requests[Len(requests)]

\* a call of three attempts has failed three times retryably, the last time with
\* another error than before, and has raised
RetriesExhausted ==
    /\ rcall.pc = "raised"
    /\ rcall.max_attempts = 3
    /\ Len(requests) = 3
    /\ \A i \in 1..3 : RetryableFailure(requests[i])
    /\ requests[3] # requests[2]

BackoffSchedule ==
    /\ \A i \in 1..Len(sleeps) : sleeps[i] = rcall.delay * Pow(rcall.backoff, i - 1)
    /\ rcall.pc \in {"returned", "raised"} => Len(sleeps) = Len(requests) - 1
    /\ (rcall.pc = "raised" /\ Len(requests) = rcall.max_attempts)
       => Len(sleeps) = rcall.max_attempts - 1

\* a call with a backoff above 1 has failed three times and slept twice
SleptTwice ==
    /\ rcall.pc = "raised"
    /\ rcall.backoff > 1
    /\ Len(requests) = 3
    /\ Len(sleeps) = 2

----------------------------------------------------------------------------
(* Properties of the page loop *)

\* the number of items the upstream holds on a page
PageLen(p) == ResponseOf(catalogue, p).n

\* the first page with fewer than page_size items
FirstShortPage == CHOOSE k \in 1..(MaxPages + 1) :
                      /\ PageLen(k) < PageSize
                      /\ \A j \in 1..(k - 1) : PageLen(j) = PageSize

\* the items of pages 1..k, page by page
RECURSIVE ItemsUpTo(_)
ItemsUpTo(k) ==
    IF k = 0 THEN <<>> ELSE ItemsUpTo(k - 1) \o [i \in 1..PageLen(k) |-> <<k, i>>]

\* the for loop has handed over every item of the page, without the cap cutting in
PageProcessed ==
    /\ trav.pc = "items"
    /\ trav.idx > trav.response.n
    /\ ~CapReached(trav.max_products, trav.total_products)

\* C14: once the items of a page are processed, the loop ends if the page had
\* fewer than page_size items and goes on to the next page if it had page_size
\* items, whatever the hasMore flag of the page; and the loop, when it goes on
\* below the cap, requests that page.
StopsOnShortPage ==
    [][/\ (PageProcessed /\ trav' # trav) =>
             IF trav.response.n < PageSize
             THEN trav'.pc = "done" /\ fetched' = fetched
             ELSE trav'.pc = "loop" /\ trav'.current_page = trav.current_page + 1
       /\ (/\ trav.pc = "loop"
           /\ ~CapReached(trav.max_products, trav.total_products)
           /\ trav' # trav)
          => fetched' = Append(fetched, trav.current_page)
       /\ (trav.pc = "done" /\ trav'.pc = "done") => fetched' = fetched]_vars

\* a full page whose hasMore flag is false has been processed and the next page
\* is about to be requested
FullPageFlagFalse ==
    /\ trav.pc = "loop"
    /\ trav.current_page > 1
    /\ trav.response.n = PageSize
    /\ ~trav.response.hasMore
    /\ ~CapReached(trav.max_products, trav.total_products)

\* C15: a traversal whose page 1 came back with no item and hasMore false has
\* ended there: page 1 is the only page requested, no item was handed to the
\* pipeline and no session was opened.
EmptyCategoryEndsAtOnce ==
    (/\ trav.pc # "idle"
     /\ fetched # <<>>
     /\ trav.exit # "error"
     /\ PageLen(1) = 0
     /\ ~ResponseOf(catalogue, 1).hasMore)
    => /\ trav.pc = "done"
       /\ fetched = <<1>>
       /\ handed = <<>>
       /\ sessions = 0

\* the traversal of an empty category has returned
EmptyCategorySkipped ==
    /\ trav.pc = "done"
    /\ trav.exit = "empty"
    /\ fetched = <<1>>

\* C16: a traversal without cap whose requests all succeeded has, when it ends,
\* requested exactly the pages 1..k, k the first page with fewer than page_size
\* items, and handed every item of those pages to the pipeline exactly once, in
\* order.
FetchesUpToFirstShortPage ==
    (trav.pc = "done" /\ trav.max_products = 0 /\ trav.exit # "error")
    => /\ fetched = [i \in 1..FirstShortPage |-> i]
       /\ handed = ItemsUpTo(FirstShortPage)

\* a traversal of a full page and a shorter, non-empty one has ended
TwoPagesTraversed ==
    /\ trav.pc = "done"
    /\ trav.max_products = 0
    /\ trav.exit = "last"
    /\ fetched = <<1, 2>>
    /\ Len(handed) > PageSize

\* C17: an item whose processing raises does not end the page: the loop moves to
\* the next item of the same page in the same session, and the page is left only
\* when all its items were handed over or the cap is reached, by the test every
\* page ends with.
ItemFailureKeepsPage ==
    [][/\ (Len(handed') = Len(handed) + 1 /\ trav'.total_products = trav.total_products)
          => /\ trav'.pc = "items"
             /\ trav'.idx = trav.idx + 1
             /\ trav'.current_page = trav.current_page
             /\ sessions' = sessions
       /\ (trav.pc = "items" /\ trav'.pc # "items")
          => \/ trav.idx > trav.response.n
             \/ CapReached(trav.max_products, trav.total_products)]_vars

\* an item of the page has failed and a later item of the page has been handed over
ItemFailedPageGoesOn ==
    /\ trav.pc = "items"
    /\ trav.idx > 2
    /\ trav.total_products = 0
    /\ Len(handed) = 2

----------------------------------------------------------------------------
(* Properties of the coordinator *)

\* C20: at every moment at most max_concurrent category traversals are in flight.
TraversalsBounded == Cardinality(InFlight) <= width

\* the semaphore is exhausted and a task waits for it
SemaphoreFull ==
    /\ Cardinality(InFlight) = width
    /\ sem = 0
    /\ \E c \in DOMAIN cats : cats[c] = "waiting"

----------------------------------------------------------------------------
(* Properties of the crawl: the coordinator with its traversals *)

RECURSIVE SumProcessed(_)
SumProcessed(S) ==
    IF S = {} THEN 0
    ELSE LET c == CHOOSE x \in S : TRUE
         IN ctrav[c].total_products + SumProcessed(S \ {c})

\* the items processed so far across all categories of the run
Processed == SumProcessed(DOMAIN ctrav)

\* the step makes category c request a page or hand over an item
SchedulesWork(c) ==
    /\ Len(clog'[c]) = Len(clog[c]) + 1
    /\ clog'[c][Len(clog'[c])][1] \in {"page", "begin"}

\* C21: once the items processed across all categories have reached max_products,
\* no traversal of the run requests another page or hands over another item.
CapSharedByTraversals ==
    [][(run.pc = "running" /\ CapReached(run.max_products, Processed))
          => \A c \in DOMAIN clog : ~SchedulesWork(c)]_vars

\* the traversal of category c has ended on a failure: a page request that raised
\* (caught in fetch_category_products) or an exception that left the function
TraversalFailed(c) == ctrav[c].pc = "done" /\ ctrav[c].exit \in {"error", "raised"}

\* C22: the step in which the traversal of a category fails changes nothing of any
\* other category; the task of a failed traversal ends like any other, releasing
\* its semaphore slot; and when the run returns every category of the list has
\* been traversed.
FailureLeavesSiblings ==
    /\ [][\A c \in DOMAIN cats :
            (run.pc = "running" /\ ~TraversalFailed(c) /\ TraversalFailed(c)')
            => \A d \in DOMAIN cats \ {c} :
                  cats'[d] = cats[d] /\ ctrav'[d] = ctrav[d] /\ clog'[d] = clog[d]]_vars
    /\ [][\A c \in DOMAIN cats :
            (run.pc = "running" /\ cats[c] = "running" /\ cats'[c] # "running")
            => sem' = sem + 1 /\ cats'[c] = "done"]_vars
    /\ [](run.pc = "returned"
            => /\ sem = width
               /\ \A c \in DOMAIN cats : cats[c] = "done" /\ ctrav[c].pc = "done")

\* with one slot, a category whose traversal raised has ended and a sibling that
\* took the slot after it is processing an item
SiblingRunsAfterFailure ==
    /\ width = 1
    /\ \E c, d \in DOMAIN cats :
         /\ cats[c] = "done"
         /\ ctrav[c].exit = "raised"
         /\ cats[d] = "running"
         /\ ctrav[d].pc = "item"

\* entry i of the log of category c follows the order of the loops: page 1 comes
\* first; a later page follows the end of the last item of the page before it; an
\* item begins after the request of its page (the first item) or after the end of
\* the item before it; an item ends after it began
InLoopOrder(c, i) ==
    LET e == clog[c][i]
        before == IF i = 1 THEN <<"none", 0, 0>> ELSE clog[c][i - 1]
        EndOf(p, n) == before[1] \in {"returned", "raised"} /\ before[2] = p /\ before[3] = n
    IN CASE e[1] = "page" ->
              \/ i = 1 /\ e[2] = 1
              \/ EndOf(e[2] - 1, ResponseOf(CategoryPages(c), e[2] - 1).n)
         [] e[1] = "begin" ->
              \/ e[3] = 1 /\ before = <<"page", e[2], 0>>
              \/ e[3] > 1 /\ EndOf(e[2], e[3] - 1)
         [] OTHER -> before = <<"begin", e[2], e[3]>>

\* C23: in every category a page is requested only after every item of the page
\* before it has finished, and the items of a page are handed over one at a time
\* in the order of the page, whatever the other categories do meanwhile.
PagesAndItemsInOrder ==
    \A c \in DOMAIN clog : \A i \in 1..Len(clog[c]) : InLoopOrder(c, i)

\* a category is on an item of its second page while another category is on an
\* item too
SecondPageAmongSiblings ==
    \E c, d \in DOMAIN cats :
        /\ c # d
        /\ ctrav[c].pc = "item" /\ ctrav[c].current_page = 2
        /\ ctrav[d].pc = "item"

\* C24: whatever an item, a page or a category raises, no task ends with an
\* exception, a run that has started returns, and on return every task has been
\* awaited and counted: total_processed is the number of categories.
RunCompletesCountingAll ==
    /\ [](\A c \in DOMAIN cats : cats[c] # "failed")
    /\ [](run.pc = "returned"
            => /\ \A c \in DOMAIN cats : cats[c] = "done"
               /\ run.total_processed = Len(cats))
    /\ (run.pc = "running") ~> (run.pc = "returned")

\* a run of two categories has returned although an item of category 1 raised,
\* the request of its second page raised, and the traversal of category 2 raised
ReturnedDespiteFailures ==
    /\ run.pc = "returned"
    /\ Len(cats) = 2
    /\ ctrav[1].exit = "error" /\ ctrav[1].current_page = 2 /\ ctrav[1].total_products = 1
    /\ ctrav[2].exit = "raised"

----------------------------------------------------------------------------
(* Properties of the normalisation *)

\* the urls of a sequence of QC entries, the empty ones left out
UrlsOf(entries) ==
    SelectSeq([i \in 1..Len(entries) |-> entries[i].url], LAMBDA u : u # "")

\* s without the elements that occurred earlier in it
FirstOccurrences(s) ==
    LET keep == {i \in 1..Len(s) : \A j \in 1..(i - 1) : s[j] # s[i]}
        RECURSIVE pick(_)
        pick(i) == IF i > Len(s) THEN <<>>
                   ELSE IF i \in keep THEN <<s[i]>> \o pick(i + 1) ELSE pick(i + 1)
    IN pick(1)

\* the product was normalised and passed the gate
Eligible == norm.pc = "prepared" /\ norm.pd # NoData

\* C25: the qc_images of a product are the QC urls of the detail followed by those
\* of the atlas responses, each url once, at the place of its first occurrence.
QcImagesDeduplicated ==
    Eligible
    => norm.pd.image_urls.qc_images =
         FirstOccurrences(UrlsOf(norm.detail.qcList)
                          \o UrlsOf(AtlasQcEntries(norm.atlas_responses)))

\* the QC timestamps of the detail and of the accumulated atlas responses
CollectedTimes ==
    LET all == norm.detail.qcList \o AtlasQcEntries(norm.atlas_responses)
    IN SelectSeq([i \in 1..Len(all) |-> all[i].time], LAMBDA t : t # NULL)

\* the collected timestamps, each in seconds
NormalizedTimes == [i \in 1..Len(CollectedTimes) |-> Normalize(CollectedTimes[i])]

\* C26: last_qc_time is the newest of the collected timestamps after each was
\* brought to seconds, and None when none was collected.
LastQcTimeIsNewestNormalized ==
    norm.pc = "prepared"
    => norm.last_qc_time =
         IF CollectedTimes = <<>> THEN NULL
         ELSE FromTimestamp(SeqMax(NormalizedTimes), norm.zone)

\* the rule of the claim: above 10^10 a value is milliseconds, up to it seconds
InSeconds(t) == IF t > MsThreshold THEN t \div 1000 ELSE t

\* C27: a timestamp above 10^10 is divided by 1000 and any other is taken as
\* seconds, where last_qc_time is computed and where the QC images of the last 30
\* days are counted; 1700000000000 and 1700000000 give the same last_qc_time.
ThresholdSplitsUnits ==
    /\ (norm.pc = "prepared" /\ Len(CollectedTimes) = 1)
       => /\ norm.last_qc_time = FromTimestamp(InSeconds(CollectedTimes[1]), norm.zone)
          /\ CollectedTimes[1] \in {Epoch, Epoch * 1000}
             => norm.last_qc_time = FromTimestamp(Epoch, norm.zone)
    /\ Eligible
       => norm.pd.qc_count_30days =
            Cardinality({i \in 1..Len(CollectedTimes) :
               FromTimestamp(InSeconds(CollectedTimes[i]), norm.zone) >= now - Window})

\* a product whose only QC timestamp is 10^10 itself has been normalised: the value
\* was taken as seconds and the product passed the gate
ThresholdTakenAsSeconds ==
    /\ Eligible
    /\ norm.detail.qcList = <<Qc("c", MsThreshold)>>
    /\ norm.atlas_responses = <<>>
    /\ norm.pd.last_qc_time = FromTimestamp(MsThreshold, norm.zone)

\* C28: the qc_count_30days of an eligible product is the number of its collected
\* timestamps that, each brought to seconds, lie at or after the clock minus 30
\* days.
CountsTimestampsOfLast30Days ==
    Eligible
    => norm.pd.qc_count_30days =
         Cardinality({i \in 1..Len(CollectedTimes) :
            InSeconds(CollectedTimes[i]) >= now - Window})

\* the first atlas page that has no item or whose hasMore is false; past the pages
\* the upstream holds, every page is empty
LastAtlasPage ==
    CHOOSE k \in 1..(MaxAtlasPages + 1) :
        /\ LET r == AtlasResponseOf(norm.pages, k) IN r.atlasList = <<>> \/ ~r.hasMore
        /\ \A p \in 1..(k - 1) :
             LET r == AtlasResponseOf(norm.pages, p) IN r.atlasList # <<>> /\ r.hasMore

\* the atlas pages that were requested and answered, the empty ones left out
AnsweredNonEmpty ==
    LET answered == IF norm.failed THEN Len(norm.asked) - 1 ELSE Len(norm.asked)
    IN SelectSeq([p \in 1..answered |-> AtlasResponseOf(norm.pages, p)],
                 LAMBDA r : r.atlasList # <<>>)

\* C29: the atlas pages are requested one at a time from page 1 upwards, none past
\* the first page that is empty or says hasMore is false, and up to that page
\* unless a request fails; every non-empty page that was answered is among the
\* responses prepare_product_data is given, and its QC urls are in qc_images.
AtlasPagesInOrderAllKept ==
    /\ norm.asked = [p \in 1..Len(norm.asked) |-> p]
    /\ Len(norm.asked) <= LastAtlasPage
    /\ norm.pc \in {"fetched", "prepared"}
       => /\ ~norm.failed => Len(norm.asked) = LastAtlasPage
          /\ norm.atlas_responses = AnsweredNonEmpty
    /\ norm.pc = "prepared"
       => \A u \in {e.url : e \in {AtlasQcEntries(AnsweredNonEmpty)[i] :
                                     i \in 1..Len(AtlasQcEntries(AnsweredNonEmpty))}} :
             u # "" => Contains(norm.qc_images, u)

\* two atlas pages were fetched, the second saying hasMore is false, and both are
\* in what was normalised
TwoAtlasPagesKept ==
    /\ norm.pc = "prepared"
    /\ ~norm.failed
    /\ norm.asked = <<1, 2>>
    /\ norm.pages[2].atlasList # <<>> /\ ~norm.pages[2].hasMore
    /\ Len(norm.atlas_responses) = 2

----------------------------------------------------------------------------
(* Properties of the resume query *)

\* the Active rows of the table read that have a categoryId
ActiveWithCategory == {r \in hint.table : r.status = Active /\ r.categoryId # NULL}

\* C30: the query returns the greatest categoryId of the Active rows when an Active
\* row with that categoryId carries today's batch identifier; it returns None when
\* no Active row has a categoryId, when none with the greatest categoryId carries
\* today's batch identifier, and when a statement raises.
ResumeHintIsMaxOfToday ==
    hint.pc = "returned"
    => IF /\ ~hint.error
          /\ \E r \in ActiveWithCategory :
               /\ \A q \in ActiveWithCategory : q.categoryId <= r.categoryId
               /\ r.update_task_id = hint.today_task_id
       THEN /\ hint.result # NULL
            /\ \A q \in ActiveWithCategory : q.categoryId <= hint.result
            /\ \E r \in ActiveWithCategory : r.categoryId = hint.result
       ELSE hint.result = NULL

\* the query returned category 4114 from a table that also holds an Active row of
\* category 4113 and a soft-deleted row of today's batch
ResumeFromGreatestCategory ==
    /\ hint.pc = "returned"
    /\ hint.result = 4114
    /\ \E r \in hint.table : r.categoryId = 4113 /\ r.status = Active
    /\ \E r \in hint.table : r.status = SoftDeleted /\ r.update_task_id = hint.today_task_id

----------------------------------------------------------------------------
(* Sessions, startup and the existence check *)

\* C31: every category worker has one database session per page.  No session is
\* open when the worker requests a page; while the items of a page are processed
\* the open session is the one of that page in that category, and every item is
\* begun and ended under it; the session is closed when the page is left, so the
\* traversal returns with no session open.
OneSessionPerPage ==
    /\ [](\A c \in DOMAIN ctrav :
            /\ ctrav[c].session # 0 => ctrav[c].session = ctrav[c].current_page
            /\ ctrav[c].session # 0 <=> ctrav[c].pc \in {"items", "item"})
    /\ [][\A c \in DOMAIN ctrav :
            (c \in DOMAIN ctrav' /\ Len(clog'[c]) = Len(clog[c]) + 1) =>
                LET e == clog'[c][Len(clog'[c])]
                IN IF e[1] = "page"
                   THEN /\ ctrav[c].session = 0
                        /\ ctrav'[c].session \in {0, e[2]}
                   ELSE /\ ctrav[c].session = e[2]
                        /\ ctrav'[c].session = e[2]]_vars

\* Witness for C31: category 1 is on the last item of its second page under the
\* session of that page while category 2 has the session of its first page open.
SessionsOfTwoCategories ==
    /\ DOMAIN ctrav = {1, 2}
    /\ ctrav[1].pc = "item" /\ ctrav[1].session = 2
    /\ ctrav[2].pc = "item" /\ ctrav[2].session = 1

\* C32, as stated: when the database or the message broker cannot be connected at
\* startup, the run is aborted before any category is traversed: no crawl starts.
StartupFailureIsFatal ==
    (boot.database = "failed" \/ boot.broker = "failed") => run = NoRun /\ ctrav = <<>>

\* the row of the findqc_id of the call, before and after it
RowBefore == CHOOSE p \in chk.table : p.findqc_id = chk.findqc_id
RowAfter == CHOOSE p \in chk.after : p.findqc_id = chk.findqc_id

\* C33: check_and_update_existing_product returns "not_exists" and writes nothing
\* when the findqc_id has no row.  When it has one, a last_qc_time that is null or
\* older than the clock minus 30 days sets status SoftDeleted and returns
\* "exists_deleted"; a last_qc_time at or after the clock minus 30 days stores
\* last_qc_time and qc_count_30days and returns "exists_updated".  Either write
\* also sets last_update and changes no other column and no other row.
CheckDecidesByAge ==
    chk.pc = "returned" =>
        IF \A p \in chk.table : p.findqc_id # chk.findqc_id
        THEN chk.op = "not_exists" /\ chk.after = chk.table
        ELSE /\ chk.after \ {RowAfter} = chk.table \ {RowBefore}
             /\ IF chk.last_qc_time = NULL \/ chk.last_qc_time < chk.clock - Window
                THEN /\ chk.op = "exists_deleted"
                     /\ RowAfter = [RowBefore EXCEPT !.status = SoftDeleted,
                                                     !.last_update = chk.clock]
                ELSE /\ chk.op = "exists_updated"
                     /\ RowAfter = [RowBefore EXCEPT !.last_qc_time = chk.last_qc_time,
                                                     !.qc_count_30days = chk.qc_count_30days,
                                                     !.last_update = chk.clock]

\* Witness for C33: a call for a stored row with a last_qc_time exactly 30 days
\* before the clock has returned "exists_updated".
CheckedAtBoundary ==
    /\ chk.pc = "returned"
    /\ chk.table # {}
    /\ chk.findqc_id = 1
    /\ chk.last_qc_time = chk.clock - Window
    /\ chk.op = "exists_updated"

\* C34: the lifecycle check of an ingestion decides on a soft-delete only when the
\* clock has moved on since the freshness gate of that ingestion, for a
\* last_qc_time that was within 30 days at the gate and is no longer at the check;
\* and a row becomes SoftDeleted only by the commit of such an ingestion.  With a
\* clock that stands still between the two reads no ingestion soft-deletes.
SoftDeleteOnlyAcrossBoundary ==
    /\ [][\A w \in Workers :
            (pc[w] = "prepared" /\ pc'[w] = "commit_exists" /\ cur'[w].op = "exists_deleted")
            => /\ cur[w].tgate < now
               /\ cur[w].pd.last_qc_time >= cur[w].tgate - Window
               /\ cur[w].pd.last_qc_time < now - Window]_vars
    /\ [][\A p \in products : \A q \in products' :
            (q.id = p.id /\ p.status # SoftDeleted /\ q.status = SoftDeleted)
            => \E w \in Workers :
                  /\ pc[w] = "commit_exists" /\ pc'[w] = "idle"
                  /\ cur[w].item.id = p.findqc_id
                  /\ cur[w].op = "exists_deleted"
                  /\ cur[w].tgate < now]_vars

\* Witness for C34: a row whose newest QC image was exactly 30 days old at the
\* gate was soft-deleted by a check made after the clock had moved on.
SoftDeletedAfterTick ==
    \E p \in products :
        /\ p.status = SoftDeleted
        /\ p.last_qc_time = Epoch - Window
        /\ p.last_update = Epoch + 1
        /\ now = Epoch + 1

\* C35: no step changes the status of a Product row from SoftDeleted to anything
\* else; the committed refresh of a SoftDeleted row stores the new last_qc_time
\* and qc_count_30days and leaves the row SoftDeleted.
SoftDeletedStays ==
    /\ [][\A p \in products : \A q \in products' :
            (q.id = p.id /\ p.status = SoftDeleted) => q.status = SoftDeleted]_vars
    /\ [][\A w \in Workers :
            (/\ pc[w] = "commit_exists" /\ cur[w].op = "exists_updated"
             /\ pc'[w] # pc[w] /\ products' # products)
            => \A p \in RowsOf(cur[w].item.id) :
                  p.status = SoftDeleted
                  => \E q \in products' :
                        /\ q.id = p.id
                        /\ q.status = SoftDeleted
                        /\ q.last_qc_time = cur[w].pd.last_qc_time
                        /\ q.qc_count_30days = cur[w].pd.qc_count_30days]_vars

\* Witness for C35: fresh QC data of a SoftDeleted row has been flushed as an
\* UPDATE that sets a newer last_qc_time and does not touch status.
SoftDeletedRowRefreshed ==
    \E w \in Workers : \E p \in RowsOf(cur[w].item.id) : \E u \in sess[w].upd :
        /\ pc[w] = "commit_exists"
        /\ cur[w].op = "exists_updated"
        /\ p.status = SoftDeleted
        /\ u.id = p.id
        /\ "status" \notin DOMAIN u.cols
        /\ u.cols.last_qc_time > p.last_qc_time

----------------------------------------------------------------------------
(* The cap, failed pages and failed requests *)

\* the items of category c for which process_single_product has returned
ReturnedItems(c) == {i \in 1..Len(clog[c]) : clog[c][i][1] = "returned"}

FailedPageEndsTraversal ==
    /\ [](\A c \in DOMAIN ctrav : ctrav[c].exit = "raised" => clog[c] = <<>>)
    /\ [][\A c \in DOMAIN ctrav :
            (c \in DOMAIN ctrav' /\ ctrav[c].exit = "none" /\ ctrav'[c].exit = "error")
            => /\ ctrav[c].session = 0
               /\ ctrav'[c] = [ctrav[c] EXCEPT !.pc = "done", !.exit = "error"]
               /\ clog'[c] = Append(clog[c], <<"page", ctrav[c].current_page, 0>>)
               /\ UNCHANGED <<products, tasks, events, sess>>]_vars
    /\ [][\A c \in DOMAIN ctrav :
            (run.pc = "running" /\ ctrav[c].exit = "error")
            => ctrav'[c] = ctrav[c] /\ clog'[c] = clog[c]]_vars
    /\ [](\A c \in DOMAIN ctrav :
            (ctrav[c].exit = "error" /\ run.pc = "returned") => cats[c] = "done")

\* Witness for C37: the request of page 2 of category 1 failed after both items
\* of page 1 had returned, and the run has returned with the category counted.
SecondPageFailed ==
    /\ run.pc = "returned"
    /\ 1 \in run.awaited
    /\ ctrav[1].exit = "error"
    /\ ctrav[1].current_page = 2
    /\ ctrav[1].total_products = 2
    /\ clog[1][Len(clog[1])] = <<"page", 2, 0>>

\* C38: an atlas request that raises does not fail the product: the loop stops
\* with every page answered before it kept, prepare_product_data works on the
\* detail and those pages, and what is stored is the product data it returned.
\* A detail request that raises fails the item before any atlas request, with
\* nothing written, flushed or published.
AtlasFailureKeepsProduct ==
    /\ [](norm.failed =>
            /\ norm.pc \in {"fetched", "prepared", "gate"}
            /\ norm.atlas_responses =
                  [i \in 1..(Len(norm.asked) - 1) |-> AtlasResponseOf(norm.pages, i)])
    /\ [](norm.pc \in {"prepared", "gate"} =>
            norm.pd = PrepareProductData(NormItem, CategoryOf["w1"], norm.detail,
                                         norm.atlas_responses, norm.zone, now))
    /\ [](\A p \in products :
            /\ norm.pc = "gate"
            /\ norm.pd # NoData
            /\ p = NewProduct(norm.pd, task_id, p.id, now))
    /\ [](norm.pc = "raised" =>
            /\ ~norm.failed /\ norm.asked = <<>>
            /\ pc["w1"] = "idle" /\ sess["w1"] = EmptySession
            /\ products = {} /\ tasks = <<>> /\ events = <<>>)

\* Witness for C38: the detail listed no QC image, atlas page 1 was answered and
\* the request of page 2 raised; the product was stored with the image of page 1
\* and its event is published.
StoredFromPagesBeforeFailure ==
    /\ norm.failed
    /\ norm.detail.qcList = <<>>
    /\ norm.asked = <<1, 2>>
    /\ Len(norm.atlas_responses) = 1
    /\ \E p \in products : p.image_urls.qc_images = <<"a">>
    /\ Len(events) = 1

----------------------------------------------------------------------------
(* Termination of the traversal and of its retried calls *)

\* C39: with the event loop running the coroutine, a category traversal that has
\* started reaches its end, and it ends by the cap, by a failed page request, or
\* by a page that is empty or the last one; the loop head is never reached with
\* the cap already met; every page request made through async_retry stops,
\* returned or raised, and makes at most max_attempts attempts, sleeping between
\* two attempts only.
TraversalAndCallsTerminate ==
    /\ (trav.pc \in {"loop", "items"}) ~> (trav.pc = "done")
    /\ (rcall.pc \in {"try", "sleep"}) ~> (rcall.pc \in {"returned", "raised"})
    /\ [](trav.pc = "done" => trav.exit \in {"cap", "error", "empty", "nodata", "last"})
    /\ [](trav.pc = "loop" => ~CapReached(trav.max_products, trav.total_products))
    /\ [](rcall.pc # "idle" =>
            /\ rcall.attempt <= rcall.max_attempts
            /\ Len(requests) <= rcall.max_attempts
            /\ Len(sleeps) < Len(requests) \/ (rcall.pc = "try" /\ Len(sleeps) = Len(requests)))
    /\ [](trav.pc \in {"items", "done"} => Len(requests) <= MaxAttemptsLimit)

\* Witness for C39: the first page was handed over, the request of the second
\* page used up its attempts and raised, and the traversal ended there.
EndedAfterExhaustedRequest ==
    /\ trav.pc = "done"
    /\ trav.exit = "error"
    /\ trav.current_page = 2
    /\ Len(handed) > 0
    /\ Len(requests) = MaxAttemptsLimit
    /\ \A i \in 1..Len(requests) : Retryable(requests[i])

====
